---- MODULE Spec2Model ----
(***************************************************************************)
(* Streaming response pipeline of supermodel-ai: App.sendMessage (the      *)
(* orchestrator), services/geminiService generateResponseStream and its    *)
(* three provider adapters, the pre/post-processing script runner and      *)
(* recommendSkill (the router).                                            *)
(*                                                                         *)
(* Text is a sequence of one-character strings.  An optional value         *)
(* (null | x in the source) is the sequence <<>> or <<x>>.  Every `await`  *)
(* of the source that waits for I/O ends an action; code separated only by *)
(* promise continuations (microtasks) can not be interleaved with a UI     *)
(* event, so handleStop is enabled only at the I/O waits.                  *)
(***************************************************************************)
EXTENDS Integers, Sequences, FiniteSets, TLC

\* ------------------------------------------------------------------ bounds
MaxReads == 2
MaxLinesPerRead == 2

\* ------------------------------------------------------- program constants
GENERAL_SKILL_ID == "68415a52-ced4-4aeb-b1aa-01f000000000"
TokenDivisor == 4
\* cost_per_1k_tokens is in cents per 1000 tokens: a cost is kept as the
\* numerator of a fraction over CostDenominator
CostDenominator == 1000 * 100

\* ---------------------------------------------------------------- helpers
None == <<>>
Some(x) == <<x>>
IsSome(o) == o /= <<>>
Get(o) == o[1]

RECURSIVE Concat(_)
Concat(chunks) ==
    IF chunks = <<>> THEN <<>> ELSE Head(chunks) \o Concat(Tail(chunks))

\* the text of n characters ch
Rep(ch, n) == [i \in 1..n |-> ch]

\* Array.prototype.find: the first element whose index is in hits (the
\* indices of the elements satisfying the predicate), or undefined
Find(s, hits) ==
    IF hits = {} THEN None
    ELSE Some(s[CHOOSE i \in hits : \A j \in hits : i <= j])

\* Array.prototype.slice(from, to) with negative indices counted from the end
Slice(s, from, to) ==
    LET n  == Len(s)
        lo == IF from < 0 THEN (IF n + from < 0 THEN 0 ELSE n + from)
              ELSE (IF from > n THEN n ELSE from)
        hi == IF to < 0 THEN (IF n + to < 0 THEN 0 ELSE n + to)
              ELSE (IF to > n THEN n ELSE to)
    IN  IF hi <= lo THEN <<>> ELSE SubSeq(s, lo + 1, hi)

\* Math.ceil(len / 4)
CeilDiv(n, d) == (n + d - 1) \div d

\* ------------------------------------------------------------------ skills
Providers == {"google", "google_search", "openai", "anthropic", "local", "acme", "ghost"}

\* scripts are opaque user code: "" is an absent script, "code" a present one
Skill(id, category, provider, type, pre, post, cost, installed, active) ==
    [id |-> id, category |-> category, provider |-> provider,
     skill_type |-> type, preprocessing_code |-> pre, postprocessing_code |-> post,
     cost_per_1k_tokens |-> cost, isInstalled |-> installed, isActive |-> active]

Family(provider) ==
    IF provider \in {"google", "google_search"} THEN "google"
    ELSE IF provider = "anthropic" THEN "anthropic"
    ELSE "openai"

\* ----------------------------------------------------------------- messages
Message(id, role, content) ==
    [id |-> id, role |-> role, content |-> content, grounding_chunks |-> None,
     tokens_in |-> None, tokens_out |-> None, cost |-> None,
     recommendation |-> None, skill_packs_used |-> None]

ErrorContent(msg) == <<"Error: ", msg>>

\* ------------------------------------------------------------------- state
VARIABLES
    skillPacks,        \* App state: the skill catalog, in load order
    apiKeys,           \* providers that have an API key configured
    customProviders,   \* names of the registered custom endpoints
    isAutoPilot,
    currentSessionId,  \* optional session id
    sessionCount,      \* sessions created so far (ids 1..sessionCount)
    allMessages,       \* session id -> message list
    isLoading,
    abortController,   \* abortController.current: optional controller id
    abortedCtrls,      \* controllers whose signal is aborted
    ctrlCount,         \* controllers created so far
    toasts,            \* titles of the notices raised
    totalCost,
    pc,                \* position of the sendMessage invocation in flight
    call,              \* its arguments, closure and locals
    gen,               \* the adapter generator's locals
    obs,               \* history of the current turn (calls, runs, deliveries)
    started,           \* a turn has been started from the UI
    pendingAction,     \* handleSkillAction waiting for installSkillPack
    wire,              \* a response body and the adapter's read loop over it
    dbCount            \* rows inserted by dataService.addMessage

vars == <<skillPacks, apiKeys, customProviders, isAutoPilot, currentSessionId,
          sessionCount, allMessages, isLoading, abortController, abortedCtrls,
          ctrlCount, toasts, totalCost, pc, call, gen, obs, started, pendingAction, wire, dbCount>>

envVars == <<apiKeys, customProviders, isAutoPilot>>

\* the open session and the sessions the two sendMessage invocations of a
\* turn can create
SessionIds == 1..3

\* ------------------------------------------------------------ initial state
Scripted == {<<"prompt", "", "">>, <<"prompt", "code", "code">>,
             <<"code-enhanced", "", "">>, <<"code-enhanced", "code", "">>,
             <<"code-enhanced", "", "code">>, <<"code-enhanced", "code", "code">>}

AllKeys == {"google", "openai", "anthropic"}

\* the script shapes tried with the providers other than google and openai,
\* and with the free skill
FewScripted == {<<"prompt", "", "">>, <<"code-enhanced", "code", "code">>}

\* a catalog holding only the general skill, active: google and openai with
\* every script shape, anthropic with a preprocessing script and every other
\* provider with two shapes, at 25 cents per 1000 tokens, and a free skill
GenerationCatalogs ==
    {<<Skill(GENERAL_SKILL_ID, "General", p, sc[1], sc[2], sc[3], 25, TRUE, TRUE)>> :
        p \in {"google", "openai"}, sc \in Scripted}
    \cup {<<Skill(GENERAL_SKILL_ID, "General", p, sc[1], sc[2], sc[3], 25, TRUE, TRUE)>> :
        p \in Providers \ {"google", "openai", "anthropic"}, sc \in FewScripted}
    \cup {<<Skill(GENERAL_SKILL_ID, "General", "anthropic", "code-enhanced", "code", "",
                 25, TRUE, TRUE)>>}
    \cup {<<Skill(GENERAL_SKILL_ID, "General", "openai", sc[1], sc[2], sc[3], 0, TRUE, TRUE)>> :
        sc \in FewScripted}

Plain(id, category, installed) ==
    Skill(id, category, "openai", "prompt", "", "", 25, installed, FALSE)

\* catalogs with no active skill, for the router
RoutingCatalogs ==
    {<<>>,
     <<Plain(GENERAL_SKILL_ID, "General", TRUE)>>,
     <<Plain("skill-1", "coding", TRUE), Plain(GENERAL_SKILL_ID, "General", TRUE)>>,
     <<Plain("skill-1", "coding", FALSE), Plain("skill-2", "writing", TRUE)>>,
     <<Plain(GENERAL_SKILL_ID, "General", FALSE), Plain("skill-1", "coding", TRUE)>>}

\* a catalog of two installed skills that differ in provider, kind, scripts
\* and price, none active yet: the user picks skills for the turn
SkillA == Skill("skill-a", "coding", "openai", "prompt", "", "", 25, TRUE, FALSE)
SkillB == Skill("skill-b", "writing", "local", "code-enhanced", "", "code", 50,
                TRUE, FALSE)

SelectionCatalogs == {<<SkillA, SkillB>>}

\* the skills the user toggles in the skill selector
ToggledIds == {"skill-a", "skill-b"}

NoClosure == [allMessages |-> <<>>, skillPacks |-> <<>>, currentSessionId |-> None]

NoCall ==
    [content |-> <<>>, skipRecommendation |-> FALSE, overrideSkill |-> None,
     closure |-> NoClosure, callNo |-> 0, sessionId |-> None, isNewSession |-> FALSE,
     userMessageId |-> None, conversationHistoryForApi |-> <<>>,
     conversationContext |-> <<>>, recommendedSkillId |-> None,
     skillsToUse |-> <<>>, assistantMessage |-> None,
     fullResponse |-> <<>>, groundingChunks |-> None, finalResponse |-> <<>>]

NoGen ==
    [family |-> "", signal |-> None, processedPrompt |-> <<>>, reads |-> 0,
     deltas |-> 0, lines |-> 0, groundingSent |-> FALSE]

NoObs ==
    [providerCalls |-> 0, routerCalls |-> 0, routerFailed |-> FALSE,
     preRuns |-> 0, postRuns |-> 0, preFailed |-> FALSE, postFailed |-> FALSE,
     delivered |-> <<>>, groundingForwarded |-> <<>>, firstGrounding |-> None,
     groundingSeen |-> 0, stoppedAt |-> None, deliveredAtStop |-> <<>>,
     lateChunks |-> 0, idleStop |-> FALSE, activationOrder |-> <<>>,
     skipped |-> FALSE, droppedDelta |-> FALSE, httpFailure |-> "",
     beforePlaceholder |-> <<>>, scriptError |-> "", regenerated |-> None,
     genEnd |-> "", published |-> None, errorAt |-> "", outcome |-> ""]

\* ids of the active skills of a catalog
ActiveIds(packs) ==
    LET Active(sp) == sp.isActive
        act == SelectSeq(packs, Active)
    IN  [i \in 1..Len(act) |-> act[i].id]

\* the order in which the active skills were activated, after id is switched
\* on or off
Activated(order, id, on) ==
    LET Other(x) == x /= id
        rest == SelectSeq(order, Other)
    IN  IF ~on THEN rest
        ELSE IF \E i \in 1..Len(order) : order[i] = id THEN order
        ELSE Append(order, id)

\* a conversation held earlier in the open session: saved user and assistant
\* messages in turn
OldMessage(i) ==
    Message(<<"old", i>>, IF i % 2 = 1 THEN "user" ELSE "assistant", <<"h">>)

Conversation(n) == [i \in 1..n |-> OldMessage(i)]

\* lengths of the earlier conversation: shorter and longer than the three
\* messages of context the router is given
HistoryLens == {2, 5}

\* the catalogs tried with an earlier conversation: one without an active
\* skill, for the router, and one with the general skill active
HistoryCatalogs ==
    {<<Plain("skill-1", "coding", TRUE), Plain(GENERAL_SKILL_ID, "General", TRUE)>>,
     <<Skill(GENERAL_SKILL_ID, "General", "openai", "prompt", "", "", 25, TRUE, TRUE)>>}

NoMessages == [s \in SessionIds |-> <<>>]

\* no accepted recommendation is being installed
NoPending == [state |-> "none", skill |-> None, prompt |-> <<>>, closure |-> NoClosure]

InitCommon ==
    /\ customProviders = {"acme"}
    /\ sessionCount = 1
    /\ isLoading = FALSE
    /\ abortController = None
    /\ abortedCtrls = {}
    /\ ctrlCount = 0
    /\ toasts = {}
    /\ totalCost = 0
    /\ pc = "idle"
    /\ call = NoCall
    /\ gen = NoGen
    /\ started = FALSE
    /\ pendingAction = NoPending
    /\ dbCount = 0

\* no response body is being framed
NoWire == [family |-> "", body |-> <<>>, rest |-> <<>>, buffer |-> <<>>,
           emitted |-> <<>>, ended |-> ""]

Init ==
    /\ InitCommon
    /\ wire = NoWire
    /\ \/ /\ skillPacks \in GenerationCatalogs
          /\ apiKeys \in {{}, AllKeys}
          /\ apiKeys = {} => skillPacks[1].provider \in {"google", "openai", "anthropic"}
          /\ isAutoPilot = FALSE
          /\ currentSessionId = Some(1)
          /\ allMessages = NoMessages
       \/ /\ skillPacks \in RoutingCatalogs
          /\ apiKeys \in {{}, {"google"}, AllKeys}
          /\ isAutoPilot \in BOOLEAN
          /\ currentSessionId \in {None, Some(1)}
          /\ currentSessionId = None => (~isAutoPilot /\ apiKeys /= {"google"})
          /\ allMessages = NoMessages
       \/ /\ skillPacks \in SelectionCatalogs
          /\ apiKeys = AllKeys
          /\ isAutoPilot = FALSE
          /\ currentSessionId = Some(1)
          /\ allMessages = NoMessages
       \/ /\ skillPacks \in HistoryCatalogs
          /\ apiKeys = AllKeys
          /\ isAutoPilot = FALSE
          /\ currentSessionId = Some(1)
          /\ \E n \in HistoryLens :
                 allMessages = [NoMessages EXCEPT ![1] = Conversation(n)]
    /\ obs = [NoObs EXCEPT !.activationOrder = ActiveIds(skillPacks)]

\* ------------------------------------------------------------------ inputs
InputLens == {0, 5}
Inputs == {Rep("q", n) : n \in InputLens}

Toast(title) == title

\* the render closure sendMessage was created in
Closure == [allMessages |-> allMessages, skillPacks |-> skillPacks,
            currentSessionId |-> currentSessionId]

\* the row dataService.addMessage returns for an inserted message
SavedMessage(m, n) ==
    [m EXCEPT !.id = <<"db", n>>,
              !.tokens_in = IF @ = Some(0) THEN None ELSE @,
              !.tokens_out = IF @ = Some(0) THEN None ELSE @,
              !.cost = IF @ = Some(0) THEN None ELSE @,
              !.recommendation = None]

ReplaceById(msgs, id, new) ==
    [i \in 1..Len(msgs) |-> IF msgs[i].id = id THEN new ELSE msgs[i]]

\* --------------------------------------------------- sendMessage, the entry
\* lines 574-589: the user message is appended to the closure's message list
WithUserMessage(c, sid, closure, msgs) ==
    LET userMessage == Message(<<"temp-user", c.callNo>>, "user", c.content)
        conv == Append(closure.allMessages[sid], userMessage)
    IN  /\ call' = [c EXCEPT !.sessionId = Some(sid),
                             !.userMessageId = Some(userMessage.id),
                             !.conversationHistoryForApi = conv]
        /\ allMessages' = [msgs EXCEPT ![sid] = conv]
        /\ pc' = "saveUser"

\* lines 537-595 up to the first await; msgs is the message map it starts from
EnterSendMessage(content, skip, override, closure, msgs) ==
    LET c == [NoCall EXCEPT !.content = content, !.skipRecommendation = skip,
                            !.overrideSkill = override, !.closure = closure,
                            !.callNo = ctrlCount + 1]
    IN  /\ isLoading' = TRUE
        /\ ctrlCount' = ctrlCount + 1
        /\ abortController' = Some(ctrlCount + 1)
        /\ IF closure.currentSessionId = None
           THEN /\ call' = [c EXCEPT !.isNewSession = TRUE]
                /\ allMessages' = msgs
                /\ pc' = "createSession"
           ELSE WithUserMessage(c, Get(closure.currentSessionId), closure, msgs)

\* toggleSkillPack (App lines 787-798) from the skill selector, before the
\* turn: the skill's isActive flag is flipped in place
ToggleActive(packs, id) ==
    [i \in 1..Len(packs) |-> IF packs[i].id = id
                             THEN [packs[i] EXCEPT !.isActive = ~@] ELSE packs[i]]

Toggle(id) ==
    /\ pc = "idle"
    /\ ~started
    /\ \E i \in 1..Len(skillPacks) : skillPacks[i].id = id
    /\ skillPacks' = ToggleActive(skillPacks, id)
    /\ obs' = [obs EXCEPT !.activationOrder =
           Activated(@, id, \E i \in 1..Len(skillPacks) :
                                skillPacks[i].id = id /\ ~skillPacks[i].isActive)]
    /\ UNCHANGED <<envVars, currentSessionId, sessionCount, allMessages, isLoading,
                   abortController, abortedCtrls, ctrlCount, toasts, totalCost, pc,
                   call, gen, started, pendingAction, wire, dbCount>>

\* Chat.handleSubmit: send is disabled while isLoading
Send(content) ==
    /\ pc = "idle"
    /\ ~isLoading
    /\ ~started
    /\ started' = TRUE
    /\ obs' = [NoObs EXCEPT !.activationOrder = obs.activationOrder]
    /\ gen' = NoGen
    /\ EnterSendMessage(content, FALSE, None, Closure, allMessages)
    /\ UNCHANGED <<skillPacks, envVars, currentSessionId, sessionCount,
                   abortedCtrls, toasts, totalCost, dbCount, pendingAction, wire>>

CreateSessionOk ==
    /\ pc = "createSession"
    /\ sessionCount + 1 \in SessionIds
    /\ LET sid == sessionCount + 1
       IN  /\ sessionCount' = sid
           /\ currentSessionId' = Some(sid)
           /\ WithUserMessage(call, sid, call.closure,
                              [allMessages EXCEPT ![sid] = <<>>])
    /\ UNCHANGED <<skillPacks, envVars, isLoading, abortController, abortedCtrls,
                   ctrlCount, toasts, totalCost, gen, obs, started, pendingAction, wire, dbCount>>

CreateSessionFail ==
    /\ pc = "createSession"
    /\ toasts' = toasts \cup {Toast("Error")}
    /\ isLoading' = FALSE
    /\ pc' = "idle"
    /\ obs' = [obs EXCEPT !.outcome = "SessionFailed"]
    /\ UNCHANGED <<skillPacks, envVars, currentSessionId, sessionCount, allMessages,
                   abortController, abortedCtrls, ctrlCount, totalCost, call, gen,
                   started, pendingAction, wire, dbCount>>

\* lines 604-610
SkillsToUse(c) ==
    IF IsSome(c.overrideSkill) THEN <<Get(c.overrideSkill)>>
    ELSE LET Active(sp) == sp.isActive IN SelectSeq(c.closure.skillPacks, Active)

\* variant: the router is asked whenever recommendation is not skipped
SaveUserOk_AlwaysRoutes ==
    /\ pc = "saveUser"
    /\ dbCount' = dbCount + 1
    /\ LET sid == Get(call.sessionId)
           userMessage == Message(Get(call.userMessageId), "user", call.content)
           skills == SkillsToUse(call)
       IN  /\ allMessages' = [allMessages EXCEPT ![sid] =
                  ReplaceById(@, userMessage.id, SavedMessage(userMessage, dbCount + 1))]
           /\ IF ~call.skipRecommendation
              THEN /\ call' = [call EXCEPT !.skillsToUse = skills,
                          !.conversationContext =
                              Slice(call.closure.allMessages[sid], -4, -1)]
                   /\ pc' = "route"
              ELSE /\ call' = [call EXCEPT !.skillsToUse = skills]
                   /\ pc' = "resolve"
    /\ UNCHANGED <<skillPacks, envVars, currentSessionId, sessionCount, isLoading,
                   abortController, abortedCtrls, ctrlCount, toasts, totalCost,
                   gen, obs, started, pendingAction, wire>>

\* lines 595-616: the saved row replaces the temporary user message
SaveUserOk ==
    /\ pc = "saveUser"
    /\ dbCount' = dbCount + 1
    /\ LET sid == Get(call.sessionId)
           userMessage == Message(Get(call.userMessageId), "user", call.content)
           skills == SkillsToUse(call)
       IN  /\ allMessages' = [allMessages EXCEPT ![sid] =
                  ReplaceById(@, userMessage.id, SavedMessage(userMessage, dbCount + 1))]
           /\ IF Len(skills) = 0 /\ ~call.skipRecommendation
              THEN /\ call' = [call EXCEPT !.skillsToUse = skills,
                          !.conversationContext =
                              Slice(call.closure.allMessages[sid], -4, -1)]
                   /\ pc' = "route"
              ELSE /\ call' = [call EXCEPT !.skillsToUse = skills]
                   /\ pc' = "resolve"
    /\ UNCHANGED <<skillPacks, envVars, currentSessionId, sessionCount, isLoading,
                   abortController, abortedCtrls, ctrlCount, toasts, totalCost,
                   gen, obs, started, pendingAction, wire>>

\* line 595 is outside the try block: the rejection leaves sendMessage
SaveUserFail ==
    /\ pc = "saveUser"
    /\ pc' = "idle"
    /\ obs' = [obs EXCEPT !.outcome = "Crashed"]
    /\ UNCHANGED <<skillPacks, envVars, currentSessionId, sessionCount, allMessages,
                   isLoading, abortController, abortedCtrls, ctrlCount, toasts,
                   totalCost, call, gen, started, pendingAction, wire, dbCount>>

\* ------------------------------------------------------------------ router
\* what the routing model can answer: a rejected call, a body that is not
\* JSON, or a JSON object whose skillId may be empty or unknown
RouterResponses(skills) ==
    {[kind |-> "throw", skillId |-> ""], [kind |-> "unparsable", skillId |-> ""]}
    \cup {[kind |-> "json", skillId |-> id] :
            id \in {skills[i].id : i \in 1..Len(skills)} \cup {"", "unknown-id"}}

GeneralByCategory(skills) ==
    LET IsGeneral(sp) == sp.category = "General"
    IN  Find(skills, {i \in 1..Len(skills) : IsGeneral(skills[i])})

\* recommendSkill's `find(General)?.id || availableSkills[0].id`
FallbackId(skills) ==
    IF IsSome(GeneralByCategory(skills)) THEN Some(Get(GeneralByCategory(skills)).id)
    ELSE Some(skills[1].id)

\* recommendSkill's `find(General)?.id || null`, taken without a routing key
NoKeyId(skills) ==
    IF IsSome(GeneralByCategory(skills)) THEN Some(Get(GeneralByCategory(skills)).id)
    ELSE None

\* the routing call is made only with a google key and a non-empty catalog
RouterReachable(skills, keys) == "google" \in keys /\ Len(skills) > 0

\* variant: the answered id is returned without looking it up in the catalog
recommendSkill_Unchecked(skills, keys, resp) ==
    IF "google" \notin keys THEN NoKeyId(skills)
    ELSE IF Len(skills) = 0 THEN None
    ELSE IF resp.kind = "json" /\ resp.skillId /= "" THEN Some(resp.skillId)
    ELSE FallbackId(skills)

\* part_009 lines 1521-1592
recommendSkill(skills, keys, resp) ==
    IF "google" \notin keys THEN NoKeyId(skills)
    ELSE IF Len(skills) = 0 THEN None
    ELSE IF /\ resp.kind = "json"
            /\ resp.skillId /= ""
            /\ \E i \in 1..Len(skills) : skills[i].id = resp.skillId
         THEN Some(resp.skillId)
    ELSE FallbackId(skills)

\* the answers that are router failures: a rejected call, an unparsable
\* body, no skillId, or a skillId that is not in the catalog
RouterFailure(skills, resp) ==
    \/ resp.kind /= "json"
    \/ resp.skillId = ""
    \/ \A i \in 1..Len(skills) : skills[i].id /= resp.skillId

\* line 616, when recommendSkill returns without calling the routing model
RouterSkip ==
    /\ pc = "route"
    /\ ~RouterReachable(call.closure.skillPacks, apiKeys)
    /\ call' = [call EXCEPT !.recommendedSkillId =
           recommendSkill(call.closure.skillPacks, apiKeys,
                          [kind |-> "throw", skillId |-> ""])]
    /\ obs' = [obs EXCEPT !.routerFailed = "google" \notin apiKeys]
    /\ pc' = "routed"
    /\ UNCHANGED <<skillPacks, envVars, currentSessionId, sessionCount, allMessages,
                   isLoading, abortController, abortedCtrls, ctrlCount, toasts,
                   totalCost, gen, started, pendingAction, wire, dbCount>>

\* line 616, the routing model answers
RouterRespond(resp) ==
    /\ pc = "route"
    /\ RouterReachable(call.closure.skillPacks, apiKeys)
    /\ call' = [call EXCEPT !.recommendedSkillId =
           recommendSkill(call.closure.skillPacks, apiKeys, resp)]
    /\ obs' = [obs EXCEPT !.routerCalls = @ + 1,
                          !.routerFailed = RouterFailure(call.closure.skillPacks, resp)]
    /\ pc' = "routed"
    /\ UNCHANGED <<skillPacks, envVars, currentSessionId, sessionCount, allMessages,
                   isLoading, abortController, abortedCtrls, ctrlCount, toasts,
                   totalCost, gen, started, pendingAction, wire, dbCount>>

\* line 618
RecommendedSkill(c) ==
    IF c.recommendedSkillId = None THEN None
    ELSE LET Picked(sp) == sp.id = Get(c.recommendedSkillId)
             packs == c.closure.skillPacks
         IN  Find(packs, {i \in 1..Len(packs) : Picked(packs[i])})

\* line 620
ActsOnRecommendation(c) ==
    /\ IsSome(RecommendedSkill(c))
    /\ Get(c.recommendedSkillId) /= GENERAL_SKILL_ID

\* lines 620, 645: no pick, or the general skill: on to generation
RouteFallThrough ==
    /\ pc = "routed"
    /\ ~ActsOnRecommendation(call)
    /\ pc' = "resolve"
    /\ UNCHANGED <<skillPacks, envVars, currentSessionId, sessionCount, allMessages,
                   isLoading, abortController, abortedCtrls, ctrlCount, toasts,
                   totalCost, call, gen, obs, started, pendingAction, wire, dbCount>>

\* lines 624-638: the recommendation is shown as an assistant message
ShowRecommendation ==
    /\ pc = "routed"
    /\ ActsOnRecommendation(call)
    /\ ~isAutoPilot
    /\ LET sid == Get(call.sessionId)
           m == [Message(<<"temp-assist", call.callNo>>, "assistant", <<"recommend">>)
                    EXCEPT !.recommendation = Some(Get(RecommendedSkill(call)).id)]
       IN  allMessages' = [allMessages EXCEPT ![sid] = Append(@, m)]
    /\ pc' = "saveRec"
    /\ UNCHANGED <<skillPacks, envVars, currentSessionId, sessionCount, isLoading,
                   abortController, abortedCtrls, ctrlCount, toasts, totalCost,
                   call, gen, obs, started, pendingAction, wire, dbCount>>

SaveRecOk ==
    /\ pc = "saveRec"
    /\ dbCount' = dbCount + 1
    /\ isLoading' = FALSE
    /\ pc' = "idle"
    /\ obs' = [obs EXCEPT !.outcome = "Recommended"]
    /\ UNCHANGED <<skillPacks, envVars, currentSessionId, sessionCount, allMessages,
                   abortController, abortedCtrls, ctrlCount, toasts, totalCost,
                   call, gen, started, pendingAction, wire>>

\* line 637 is outside the try block
SaveRecFail ==
    /\ pc = "saveRec"
    /\ pc' = "idle"
    /\ obs' = [obs EXCEPT !.outcome = "Crashed"]
    /\ UNCHANGED <<skillPacks, envVars, currentSessionId, sessionCount, allMessages,
                   isLoading, abortController, abortedCtrls, ctrlCount, toasts,
                   totalCost, call, gen, started, pendingAction, wire, dbCount>>

\* toggleSkillPack(id, true)
Activate(packs, id) ==
    [i \in 1..Len(packs) |-> IF packs[i].id = id
                             THEN [packs[i] EXCEPT !.isActive = TRUE] ELSE packs[i]]

\* installSkillPack's state update
Install(packs, id) ==
    [i \in 1..Len(packs) |-> IF packs[i].id = id
                             THEN [packs[i] EXCEPT !.isInstalled = TRUE, !.isActive = TRUE]
                             ELSE packs[i]]

SystemMessage(c) == Message(<<"temp-system", c.callNo>>, "system", <<"auto-pilot">>)

\* handleSkillAction lines 533-534: activate, then send again with the skill
\* as override, from the same render closure
ResendWith(skill, msgs) ==
    EnterSendMessage(call.content, TRUE, Some(skill), call.closure, msgs)

\* lines 621-622 and handleSkillAction with isAuto: sendMessage returns and
\* handleSkillAction carries on
AutoPilotHandOff ==
    /\ pc = "routed"
    /\ ActsOnRecommendation(call)
    /\ isAutoPilot
    /\ LET sid == Get(call.sessionId)
           skill == Get(RecommendedSkill(call))
           msgs == [allMessages EXCEPT ![sid] = Append(@, SystemMessage(call))]
       IN  IF skill.isInstalled
           THEN /\ skillPacks' = Activate(skillPacks, skill.id)
                /\ obs' = [obs EXCEPT !.activationOrder = Activated(@, skill.id, TRUE)]
                /\ ResendWith(skill, msgs)
           ELSE /\ allMessages' = msgs
                /\ pc' = "install"
                /\ UNCHANGED <<skillPacks, isLoading, abortController, ctrlCount, call,
                               obs>>
    /\ UNCHANGED <<envVars, currentSessionId, sessionCount, abortedCtrls, toasts,
                   totalCost, gen, started, pendingAction, wire, dbCount>>

\* handleSkillAction line 531 and installSkillPack; a failed install is
\* reported and handleSkillAction carries on
InstallDone(ok) ==
    /\ pc = "install"
    /\ LET skill == Get(RecommendedSkill(call))
       IN  /\ skillPacks' = Activate(IF ok THEN Install(skillPacks, skill.id)
                                     ELSE skillPacks, skill.id)
           /\ toasts' = toasts \cup
                  {Toast(IF ok THEN "Skill Installed!" ELSE "Installation Failed")}
           /\ obs' = [obs EXCEPT !.activationOrder = Activated(@, skill.id, TRUE)]
           /\ ResendWith(skill, allMessages)
    /\ UNCHANGED <<envVars, currentSessionId, sessionCount, abortedCtrls,
                   totalCost, gen, started, pendingAction, wire, dbCount>>

\* -------------------------------------------------- sendMessage, generation
\* variant: the last skill of the list governs the turn
PrimaryPack_Last(c) == c.skillsToUse[Len(c.skillsToUse)]

PrimaryPack(c) == c.skillsToUse[1]

\* lines 657-665; a skill's id stands for its name
Placeholder(c) ==
    [Message(<<"temp-assist", c.callNo>>, "assistant", <<>>) EXCEPT
        !.skill_packs_used = Some([i \in 1..Len(c.skillsToUse) |-> c.skillsToUse[i].id])]

\* lines 751-764: the catch block and the finally block
Fail(msg, at, o) ==
    /\ allMessages' = [allMessages EXCEPT ![Get(call.sessionId)] =
           ReplaceById(@, Placeholder(call).id,
                       [Placeholder(call) EXCEPT !.content = ErrorContent(msg)])]
    /\ toasts' = toasts \cup {Toast("AI Response Error")}
    /\ isLoading' = FALSE
    /\ abortController' = None
    /\ pc' = "idle"
    /\ obs' = [o EXCEPT !.outcome = "Errored", !.errorAt = at]

\* variant: without a general skill the first catalog entry is taken
Resolve_Substitutes ==
    /\ pc = "resolve"
    /\ LET IsGeneralId(sp) == sp.id = GENERAL_SKILL_ID
           packs == call.closure.skillPacks
           generalSkill == Find(packs, {i \in 1..Len(packs) : IsGeneralId(packs[i])})
           skills == IF Len(call.skillsToUse) > 0 THEN call.skillsToUse
                     ELSE IF IsSome(generalSkill) THEN generalSkill
                     ELSE IF Len(packs) > 0 THEN <<packs[1]>> ELSE <<>>
       IN  IF Len(skills) = 0
           THEN /\ toasts' = toasts \cup {Toast("Configuration Error")}
                /\ isLoading' = FALSE
                /\ pc' = "idle"
                /\ obs' = [obs EXCEPT !.outcome = "ConfigError"]
                /\ UNCHANGED <<allMessages, call>>
           ELSE /\ call' = [call EXCEPT !.skillsToUse = skills,
                                        !.assistantMessage = Some(Placeholder(call).id)]
                /\ allMessages' = [allMessages EXCEPT ![Get(call.sessionId)] =
                       Append(@, Placeholder([call EXCEPT !.skillsToUse = skills]))]
                /\ pc' = "dispatch"
                /\ obs' = [obs EXCEPT !.beforePlaceholder = allMessages]
                /\ UNCHANGED <<toasts, isLoading>>
    /\ UNCHANGED <<skillPacks, envVars, currentSessionId, sessionCount,
                   abortController, abortedCtrls, ctrlCount, totalCost, gen,
                   started, pendingAction, wire, dbCount>>

\* lines 645-670
Resolve ==
    /\ pc = "resolve"
    /\ LET IsGeneralId(sp) == sp.id = GENERAL_SKILL_ID
           packs == call.closure.skillPacks
           generalSkill == Find(packs, {i \in 1..Len(packs) : IsGeneralId(packs[i])})
           skills == IF Len(call.skillsToUse) = 0 THEN generalSkill
                     ELSE call.skillsToUse
       IN  IF Len(skills) = 0
           THEN /\ toasts' = toasts \cup {Toast("Configuration Error")}
                /\ isLoading' = FALSE
                /\ pc' = "idle"
                /\ obs' = [obs EXCEPT !.outcome = "ConfigError"]
                /\ UNCHANGED <<allMessages, call>>
           ELSE /\ call' = [call EXCEPT !.skillsToUse = skills,
                                        !.assistantMessage = Some(Placeholder(call).id)]
                /\ allMessages' = [allMessages EXCEPT ![Get(call.sessionId)] =
                       Append(@, Placeholder([call EXCEPT !.skillsToUse = skills]))]
                /\ pc' = "dispatch"
                /\ obs' = [obs EXCEPT !.beforePlaceholder = allMessages]
                /\ UNCHANGED <<toasts, isLoading>>
    /\ UNCHANGED <<skillPacks, envVars, currentSessionId, sessionCount,
                   abortController, abortedCtrls, ctrlCount, totalCost, gen,
                   started, pendingAction, wire, dbCount>>

\* generateResponseStream: the key that the provider needs, if any
RequiredKey(provider) ==
    IF provider \in {"google", "google_search"} THEN Some("google")
    ELSE IF provider \in {"openai", "anthropic"} THEN Some(provider)
    ELSE None

MissingKeyMessage(provider) ==
    IF provider \in {"google", "google_search"} THEN "Google API Key is missing."
    ELSE IF provider = "openai" THEN "OpenAI API Key is missing."
    ELSE "Anthropic API Key is missing."

IsBuiltIn(provider) ==
    provider \in {"google", "google_search", "openai", "anthropic", "local"}

\* generateResponseStream: the signal is handed to every adapter but Google's
SignalFor(provider, signal) ==
    IF Family(provider) = "google" THEN None ELSE signal

\* variant: the adapter is entered without looking at the key
Dispatch_NoKeyCheck ==
    /\ pc = "dispatch"
    /\ LET provider == PrimaryPack(call).provider
       IN  IF ~IsBuiltIn(provider) /\ provider \notin customProviders
           THEN /\ Fail("Custom provider not found.", "dispatch", obs)
                /\ UNCHANGED gen
           ELSE /\ gen' = [NoGen EXCEPT !.family = Family(provider),
                                        !.signal = SignalFor(provider, abortController)]
                /\ pc' = "preprocess"
                /\ UNCHANGED <<allMessages, toasts, isLoading, abortController, obs>>
    /\ UNCHANGED <<skillPacks, envVars, currentSessionId, sessionCount,
                   abortedCtrls, ctrlCount, totalCost, call, started, pendingAction, wire, dbCount>>

\* generateResponseStream lines 1005-1040
Dispatch ==
    /\ pc = "dispatch"
    /\ LET provider == PrimaryPack(call).provider
       IN  IF IsSome(RequiredKey(provider)) /\ Get(RequiredKey(provider)) \notin apiKeys
           THEN /\ Fail(MissingKeyMessage(provider), "dispatch", obs)
                /\ UNCHANGED gen
           ELSE IF ~IsBuiltIn(provider) /\ provider \notin customProviders
           THEN /\ Fail("Custom provider not found.", "dispatch", obs)
                /\ UNCHANGED gen
           ELSE /\ gen' = [NoGen EXCEPT !.family = Family(provider),
                                        !.signal = SignalFor(provider, abortController)]
                /\ pc' = "preprocess"
                /\ UNCHANGED <<allMessages, toasts, isLoading, abortController, obs>>
    /\ UNCHANGED <<skillPacks, envVars, currentSessionId, sessionCount,
                   abortedCtrls, ctrlCount, totalCost, call, started, pendingAction, wire, dbCount>>

\* ---------------------------------------------------------- script sandbox
\* what a script can do: return a string, return something else, or throw
ScriptOutcomes == {"string", "nonstring", "throw"}

\* the string a script returns for its input
Transformed(input) == <<"^">> \o input

RunsPre(pack) == pack.skill_type = "code-enhanced" /\ pack.preprocessing_code /= ""

RunsPost(pack) == pack.skill_type = "code-enhanced" /\ pack.postprocessing_code /= ""

\* the message of the error the runner throws: the phase tag, then the
\* script's own message or the runner's complaint about the result's type
ScriptErrorMessage(phase, outcome) ==
    "Skill Pack Error (" \o phase \o "): " \o
        (IF outcome = "throw" THEN "script failed"
         ELSE phase \o " script did not return a string.")

\* variant: a result that is not a string is converted to one
RunScript_Coerces(phase, code, pack, input, outcome) ==
    IF pack.skill_type = "code-enhanced" /\ code /= ""
    THEN IF outcome = "string"
         THEN [ran |-> TRUE, error |-> "", value |-> Transformed(input)]
         ELSE IF outcome = "nonstring"
         THEN [ran |-> TRUE, error |-> "", value |-> <<"[object Object]">>]
         ELSE [ran |-> TRUE, error |-> ScriptErrorMessage(phase, outcome),
               value |-> <<>>]
    ELSE [ran |-> FALSE, error |-> "", value |-> input]

\* the body shared by _preprocessPrompt (lines 1483-1496) and
\* postprocessResponse (lines 1501-1516): error "" is a normal return
RunScript(phase, code, pack, input, outcome) ==
    IF pack.skill_type = "code-enhanced" /\ code /= ""
    THEN IF outcome = "string"
         THEN [ran |-> TRUE, error |-> "", value |-> Transformed(input)]
         ELSE [ran |-> TRUE, error |-> ScriptErrorMessage(phase, outcome),
               value |-> <<>>]
    ELSE [ran |-> FALSE, error |-> "", value |-> input]

preprocessPrompt(skillPack, prompt, outcome) ==
    RunScript("Pre-processing", skillPack.preprocessing_code, skillPack, prompt, outcome)

postprocessResponse(skillPack, fullResponse, outcome) ==
    RunScript("Post-processing", skillPack.postprocessing_code, skillPack,
              fullResponse, outcome)

\* a run of a script, in the turn's history
Ran(o, phase, r) ==
    IF ~r.ran THEN o
    ELSE IF phase = "pre"
    THEN [o EXCEPT !.preRuns = @ + 1, !.preFailed = r.error /= "",
                   !.scriptError = r.error]
    ELSE [o EXCEPT !.postRuns = @ + 1, !.postFailed = r.error /= "",
                   !.scriptError = r.error]

\* variant: a failing preprocessing script is ignored and the raw prompt is sent
Preprocess_Swallowed(outcome) ==
    /\ pc = "preprocess"
    /\ LET r == preprocessPrompt(PrimaryPack(call), call.content, outcome)
       IN  /\ r.ran \/ outcome = "string"
           /\ gen' = [gen EXCEPT !.processedPrompt =
                         IF r.error = "" THEN r.value ELSE call.content]
           /\ obs' = Ran(obs, "pre", r)
    /\ pc' = "request"
    /\ UNCHANGED <<skillPacks, envVars, currentSessionId, sessionCount, allMessages,
                   toasts, isLoading, abortController,
                   abortedCtrls, ctrlCount, totalCost, call, started, pendingAction, wire, dbCount>>

\* _preprocessPrompt lines 1483-1496, called first by each adapter
Preprocess(outcome) ==
    /\ pc = "preprocess"
    /\ LET r == preprocessPrompt(PrimaryPack(call), call.content, outcome)
       IN  /\ r.ran \/ outcome = "string"
           /\ IF r.error = ""
              THEN /\ gen' = [gen EXCEPT !.processedPrompt = r.value]
                   /\ obs' = Ran(obs, "pre", r)
                   /\ pc' = "request"
                   /\ UNCHANGED <<allMessages, toasts, isLoading, abortController>>
              ELSE /\ Fail(r.error, "preprocess", Ran(obs, "pre", r))
                   /\ UNCHANGED gen
    /\ UNCHANGED <<skillPacks, envVars, currentSessionId, sessionCount,
                   abortedCtrls, ctrlCount, totalCost, call, started, pendingAction, wire, dbCount>>

\* ------------------------------------------------------ provider transport
\* the stub transport numbers its text deltas: the n-th delta of a stream
\* carries ChunkText(n), so that a dropped, repeated or reordered chunk shows
Alphabet == <<"a", "b", "c", "d">>
ChunkText(n) == <<Alphabet[((n - 1) % Len(Alphabet)) + 1]>>

\* the lines of an SSE body: a text delta, a delta with empty text, the
\* [DONE] sentinel, a data line that is not JSON, and any other line or event
LineKinds == {"delta", "empty", "done", "bad", "other"}

\* the line the loop looks at, when the stream has carried `sent` deltas
Line(kind, sent) ==
    [kind |-> IF kind = "empty" THEN "delta" ELSE kind,
     text |-> IF kind = "delta" THEN ChunkText(sent + 1) ELSE <<>>]

\* a chunk of the Google SDK's stream: optional text and optional grounding
\* metadata (absent, an empty list, or a list of sources)
Groundings == {None, Some(<<>>), Some(<<"g1">>), Some(<<"g2">>)}
GoogleChunks == [hasText : BOOLEAN, grounding : Groundings]

\* a non-2xx response: its body carries error.message, is JSON without one,
\* or cannot be parsed as JSON (empty, HTML, plain text)
HttpKinds == {"http_message", "http_status", "http_unparsable"}

StructuredMessage == "Rate limit reached"
StatusText == "Too Many Requests"
\* what response.json() rejects with on a body that is not JSON
JsonParseError == "Unexpected end of JSON input"

\* the prefix of lines 1173-1174 and 1269
ProviderPrefix(pack) ==
    IF pack.provider = "local" THEN "Local model error: "
    ELSE IF pack.provider = "anthropic" THEN "Anthropic API error: "
    ELSE pack.provider \o " API error: "

\* `if (!response.ok)` of lines 1170-1175 and 1266-1270: response.json()
\* is awaited before the message is built, and its rejection leaves the
\* adapter as it is
HttpError(pack, kind) ==
    IF kind = "http_unparsable" THEN JsonParseError
    ELSE ProviderPrefix(pack) \o
             (IF kind = "http_message" THEN StructuredMessage ELSE StatusText)

ProviderError(pack, kind) ==
    IF Family(pack.provider) = "google"
    THEN IF kind = "invalid_key"
         THEN "API call failed: The provided Google API Key is not valid."
         ELSE "google sdk error"
    ELSE IF kind \in HttpKinds THEN HttpError(pack, kind)
    ELSE IF pack.provider = "local"
    THEN "Connection failed: Could not connect to the local AI server."
    ELSE "Failed to fetch"

ErrorKinds(family) ==
    IF family = "google" THEN {"invalid_key", "sdk"} ELSE HttpKinds \cup {"network"}

AllErrorKinds == ErrorKinds("google") \cup ErrorKinds("openai")

\* the signal the adapter passed to fetch has been aborted
Aborted == IsSome(gen.signal) /\ Get(gen.signal) \in abortedCtrls

\* the cancellation token of the invocation in flight has been triggered
Cancelled == call.callNo \in abortedCtrls

\* fetch(...) / ai.models.generateContentStream(...) is called; an already
\* aborted signal makes fetch reject without a request
Request ==
    /\ pc = "request"
    /\ obs' = [obs EXCEPT !.providerCalls = IF Aborted THEN @ ELSE @ + 1]
    /\ pc' = "awaitResponse"
    /\ UNCHANGED <<skillPacks, envVars, currentSessionId, sessionCount, allMessages,
                   isLoading, abortController, abortedCtrls, ctrlCount, toasts,
                   totalCost, call, gen, started, pendingAction, wire, dbCount>>

ResponseOk ==
    /\ pc = "awaitResponse"
    /\ ~Aborted
    /\ pc' = "reading"
    /\ UNCHANGED <<skillPacks, envVars, currentSessionId, sessionCount, allMessages,
                   isLoading, abortController, abortedCtrls, ctrlCount, toasts,
                   totalCost, call, gen, obs, started, pendingAction, wire, dbCount>>

\* a non-2xx response, a rejected fetch or a rejected SDK call
ResponseFail(kind) ==
    /\ pc = "awaitResponse"
    /\ ~Aborted
    /\ kind \in ErrorKinds(gen.family)
    /\ Fail(ProviderError(PrimaryPack(call), kind), "awaitResponse",
            [obs EXCEPT !.httpFailure = IF kind \in HttpKinds THEN kind ELSE @])
    /\ UNCHANGED <<skillPacks, envVars, currentSessionId, sessionCount,
                   abortedCtrls, ctrlCount, totalCost, call, gen, started, pendingAction, wire, dbCount>>

\* variant: the adapter lets the AbortError through
AbortObserved_Rethrown ==
    /\ pc \in {"awaitResponse", "reading"}
    /\ Aborted
    /\ Fail("The user aborted a request.", pc, [obs EXCEPT !.genEnd = "aborted"])
    /\ UNCHANGED <<skillPacks, envVars, currentSessionId, sessionCount,
                   abortedCtrls, ctrlCount, totalCost, call, gen, started, pendingAction, wire, dbCount>>

\* the adapter's catch of AbortError: the generator returns
AbortObserved ==
    /\ pc \in {"awaitResponse", "reading"}
    /\ Aborted
    /\ obs' = [obs EXCEPT !.genEnd = "aborted"]
    /\ pc' = "post"
    /\ UNCHANGED <<skillPacks, envVars, currentSessionId, sessionCount, allMessages,
                   isLoading, abortController, abortedCtrls, ctrlCount, toasts,
                   totalCost, call, gen, started, pendingAction, wire, dbCount>>

\* variant: the result is built as soon as the stream ends
StreamEnd_SkipsPostprocess ==
    /\ pc = "reading"
    /\ ~Aborted
    /\ obs' = [obs EXCEPT !.genEnd = "natural"]
    /\ pc' = "finalize"
    /\ UNCHANGED <<skillPacks, envVars, currentSessionId, sessionCount, allMessages,
                   isLoading, abortController, abortedCtrls, ctrlCount, toasts,
                   totalCost, call, gen, started, pendingAction, wire, dbCount>>

\* reader.read() resolves with done, or the SDK's iteration ends
StreamEnd ==
    /\ pc = "reading"
    /\ ~Aborted
    /\ obs' = [obs EXCEPT !.genEnd = "natural"]
    /\ pc' = "post"
    /\ UNCHANGED <<skillPacks, envVars, currentSessionId, sessionCount, allMessages,
                   isLoading, abortController, abortedCtrls, ctrlCount, toasts,
                   totalCost, call, gen, started, pendingAction, wire, dbCount>>

\* the transport fails in the middle of the stream
StreamError ==
    /\ pc = "reading"
    /\ ~Aborted
    /\ Fail(IF gen.family = "google" THEN "google sdk error" ELSE "network error",
            "reading", obs)
    /\ UNCHANGED <<skillPacks, envVars, currentSessionId, sessionCount,
                   abortedCtrls, ctrlCount, totalCost, call, gen, started, pendingAction, wire, dbCount>>

\* ------------------------------------------------- the subscriber's updates
\* variant: the text is written to every assistant message of the session
SetContent_ByRole(msgs, id, content) ==
    [i \in 1..Len(msgs) |-> IF msgs[i].role = "assistant"
                            THEN [msgs[i] EXCEPT !.content = content] ELSE msgs[i]]

SetContent(msgs, id, content) ==
    [i \in 1..Len(msgs) |-> IF msgs[i].id = id
                            THEN [msgs[i] EXCEPT !.content = content] ELSE msgs[i]]

SetGrounding(msgs, id, g) ==
    [i \in 1..Len(msgs) |-> IF msgs[i].id = id
                            THEN [msgs[i] EXCEPT !.grounding_chunks = g] ELSE msgs[i]]

\* variant: an empty chunk clears the text accumulated so far
OnChunk_EmptyClears(st, text) ==
    LET full == IF text = <<>> THEN <<>> ELSE st.call.fullResponse \o text
        o == [st.obs EXCEPT !.delivered = Append(@, text),
                            !.lateChunks = IF Cancelled THEN @ + 1 ELSE @]
    IN  [call |-> [st.call EXCEPT !.fullResponse = full],
         msgs |-> SetContent(st.msgs, Placeholder(st.call).id, full),
         obs |-> o]

\* variant: the placeholder shows the last chunk instead of the accumulated text
OnChunk_LastChunkOnly(st, text) ==
    LET full == st.call.fullResponse \o text
        o == [st.obs EXCEPT !.delivered = Append(@, text),
                            !.lateChunks = IF Cancelled THEN @ + 1 ELSE @]
    IN  IF text /= <<>>
        THEN [call |-> [st.call EXCEPT !.fullResponse = full],
              msgs |-> SetContent(st.msgs, Placeholder(st.call).id, text),
              obs |-> o]
        ELSE [st EXCEPT !.obs = o]

\* App lines 678-684 for a part {chunk}; st = [call, msgs, obs]
OnChunk(st, text) ==
    LET full == st.call.fullResponse \o text
        o == [st.obs EXCEPT !.delivered = Append(@, text),
                            !.lateChunks = IF Cancelled THEN @ + 1 ELSE @]
    IN  IF text /= <<>>
        THEN [call |-> [st.call EXCEPT !.fullResponse = full],
              msgs |-> SetContent(st.msgs, Placeholder(st.call).id, full),
              obs |-> o]
        ELSE [st EXCEPT !.obs = o]

\* App lines 685-691 for a part {groundingChunks}
OnGrounding(st, list) ==
    [call |-> [st.call EXCEPT !.groundingChunks = Some(list)],
     msgs |-> SetGrounding(st.msgs, Placeholder(st.call).id, Some(list)),
     obs |-> [st.obs EXCEPT !.groundingForwarded = Append(@, list)]]

Subscriber == [call |-> call, msgs |-> allMessages[Get(call.sessionId)], obs |-> obs]

Publish(st) ==
    /\ call' = st.call
    /\ allMessages' = [allMessages EXCEPT ![Get(call.sessionId)] = st.msgs]
    /\ obs' = st.obs

\* ----------------------------------------------------------- Google adapter
\* _generateGoogleStream lines 1102-1104
YieldsText(chunk) == chunk.text /= <<>>

\* variant: every chunk that carries grounding metadata forwards it
YieldsGrounding_EveryChunk(chunk, groundingSent) ==
    /\ IsSome(chunk.grounding)
    /\ Len(Get(chunk.grounding)) > 0

\* _generateGoogleStream lines 1105-1106
YieldsGrounding(chunk, groundingSent) ==
    /\ IsSome(chunk.grounding)
    /\ Len(Get(chunk.grounding)) > 0
    /\ ~groundingSent

\* _generateGoogleStream lines 1101-1110: one chunk of the SDK's stream
GoogleChunk(c) ==
    /\ pc = "reading"
    /\ gen.family = "google"
    /\ gen.reads < MaxReads
    /\ LET chunk == [text |-> IF c.hasText THEN ChunkText(gen.deltas + 1) ELSE <<>>,
                     grounding |-> c.grounding]
           carries == IsSome(chunk.grounding) /\ Len(Get(chunk.grounding)) > 0
           st0 == [Subscriber EXCEPT
                      !.obs.firstGrounding = IF @ = None /\ carries
                                             THEN chunk.grounding ELSE @,
                      !.obs.groundingSeen = IF carries THEN @ + 1 ELSE @]
           st1 == IF YieldsText(chunk) THEN OnChunk(st0, chunk.text) ELSE st0
           sends == YieldsGrounding(chunk, gen.groundingSent)
           st2 == IF sends THEN OnGrounding(st1, Get(chunk.grounding)) ELSE st1
       IN  /\ Publish(st2)
           /\ gen' = [gen EXCEPT !.reads = @ + 1,
                                 !.deltas = IF c.hasText THEN @ + 1 ELSE @,
                                 !.groundingSent = @ \/ sends]
    /\ UNCHANGED <<skillPacks, envVars, currentSessionId, sessionCount, isLoading,
                   abortController, abortedCtrls, ctrlCount, toasts, totalCost,
                   pc, started, pendingAction, wire, dbCount>>

\* ------------------------------------- OpenAI-compatible and Anthropic adapters
\* reader.read() resolves with bytes that complete n lines; what each line
\* holds is drawn when the loop reaches it
ReadLines(n) ==
    /\ pc = "reading"
    /\ gen.family \in {"openai", "anthropic"}
    /\ ~Aborted
    /\ gen.reads < MaxReads
    /\ gen' = [gen EXCEPT !.reads = @ + 1, !.lines = n]
    /\ pc' = IF n = 0 THEN "reading" ELSE "lines"
    /\ UNCHANGED <<skillPacks, envVars, currentSessionId, sessionCount, allMessages,
                   isLoading, abortController, abortedCtrls, ctrlCount, toasts,
                   totalCost, call, obs, started, pendingAction, wire, dbCount>>

\* variant: a line that is no text delta ends the stream
LineEffect_MalformedEnds(family, line) ==
    IF line.kind = "delta" /\ (family /= "openai" \/ line.text /= <<>>) THEN "yield"
    ELSE IF line.kind = "delta" THEN "skip"
    ELSE "return"

\* what a line makes the adapter do: "yield", "return" or "skip"
\* (_generateOpenAICompatibleStream lines 1190-1204, _generateAnthropicStream
\* lines 1285-1295)
LineEffect(family, line) ==
    IF family = "openai"
    THEN IF line.kind = "done" THEN "return"
         ELSE IF line.kind = "delta" /\ line.text /= <<>> THEN "yield"
         ELSE "skip"
    ELSE IF line.kind = "delta" THEN "yield" ELSE "skip"

\* a line that is no well-formed text delta and no sentinel: not a data line,
\* not JSON, or another event
Malformed(family, line) ==
    line.kind \in {"bad", "other"} \/ (family = "anthropic" /\ line.kind = "done")

\* variant: the loop goes on after the sentinel
ProcessLine_SentinelContinues(kind) ==
    /\ pc = "lines"
    /\ LET line == Line(kind, gen.deltas)
           effect == LineEffect(gen.family, line)
           rest == gen.lines - 1
       IN  /\ gen' = [gen EXCEPT !.lines = rest,
                                 !.deltas = IF kind = "delta" THEN @ + 1 ELSE @]
           /\ IF effect = "yield"
              THEN /\ Publish(OnChunk(Subscriber, line.text))
                   /\ pc' = IF rest = 0 THEN "reading" ELSE "lines"
              ELSE IF effect = "return"
              THEN /\ obs' = [obs EXCEPT !.genEnd = "sentinel"]
                   /\ pc' = IF rest = 0 THEN "reading" ELSE "lines"
                   /\ UNCHANGED <<allMessages, call>>
              ELSE /\ pc' = IF rest = 0 THEN "reading" ELSE "lines"
                   /\ obs' = [obs EXCEPT
                                 !.skipped = @ \/ Malformed(gen.family, line),
                                 !.droppedDelta = @ \/ line.kind = "delta"]
                   /\ UNCHANGED <<allMessages, call>>
    /\ UNCHANGED <<skillPacks, envVars, currentSessionId, sessionCount, isLoading,
                   abortController, abortedCtrls, ctrlCount, toasts, totalCost,
                   started, pendingAction, wire, dbCount>>

\* one iteration of `for (const line of lines)`
ProcessLine(kind) ==
    /\ pc = "lines"
    /\ LET line == Line(kind, gen.deltas)
           effect == LineEffect(gen.family, line)
           rest == gen.lines - 1
       IN  /\ gen' = [gen EXCEPT !.lines = rest,
                                 !.deltas = IF kind = "delta" THEN @ + 1 ELSE @]
           /\ IF effect = "yield"
              THEN /\ Publish(OnChunk(Subscriber, line.text))
                   /\ pc' = IF rest = 0 THEN "reading" ELSE "lines"
              ELSE IF effect = "return"
              THEN /\ obs' = [obs EXCEPT !.genEnd = "sentinel"]
                   /\ pc' = "post"
                   /\ UNCHANGED <<allMessages, call>>
              ELSE /\ pc' = IF rest = 0 THEN "reading" ELSE "lines"
                   /\ obs' = [obs EXCEPT
                                 !.skipped = @ \/ Malformed(gen.family, line),
                                 !.droppedDelta = @ \/ line.kind = "delta"]
                   /\ UNCHANGED <<allMessages, call>>
    /\ UNCHANGED <<skillPacks, envVars, currentSessionId, sessionCount, isLoading,
                   abortController, abortedCtrls, ctrlCount, toasts, totalCost,
                   started, pendingAction, wire, dbCount>>

\* ------------------------------------------- sendMessage, after the stream
\* variant: a failing postprocessing script fails the turn
Postprocess_Fatal(outcome) ==
    /\ pc = "post"
    /\ LET r == postprocessResponse(PrimaryPack(call), call.fullResponse, outcome)
       IN  /\ r.ran \/ outcome = "string"
           /\ IF r.error = ""
              THEN /\ call' = [call EXCEPT !.finalResponse = r.value]
                   /\ obs' = Ran(obs, "post", r)
                   /\ pc' = "finalize"
                   /\ UNCHANGED <<allMessages, toasts, isLoading, abortController>>
              ELSE /\ Fail(r.error, "post", Ran(obs, "post", r))
                   /\ UNCHANGED call
    /\ UNCHANGED <<skillPacks, envVars, currentSessionId, sessionCount,
                   abortedCtrls, ctrlCount, totalCost, gen, started, pendingAction, wire, dbCount>>

\* App lines 694-703 with postprocessResponse lines 1501-1516
Postprocess(outcome) ==
    /\ pc = "post"
    /\ LET r == postprocessResponse(PrimaryPack(call), call.fullResponse, outcome)
       IN  /\ r.ran \/ outcome = "string"
           /\ call' = [call EXCEPT !.finalResponse =
                          IF r.error = "" THEN r.value ELSE call.fullResponse]
           /\ obs' = Ran(obs, "post", r)
           /\ toasts' = IF r.error = "" THEN toasts
                        ELSE toasts \cup {Toast("Post-processing Error")}
    /\ pc' = "finalize"
    /\ UNCHANGED <<skillPacks, envVars, currentSessionId, sessionCount, allMessages,
                   isLoading, abortController, abortedCtrls, ctrlCount, totalCost,
                   gen, started, pendingAction, wire, dbCount>>

\* variant: the estimate rounds down
EstimateTokens_Floor(text) == Len(text) \div TokenDivisor

\* App lines 705-706
EstimateTokens(text) == CeilDiv(Len(text), TokenDivisor)

\* App lines 707-710, as a numerator over CostDenominator
MessageCost(inputTokens, outputTokens, pack) ==
    IF pack.cost_per_1k_tokens /= 0
    THEN (inputTokens + outputTokens) * pack.cost_per_1k_tokens
    ELSE 0

\* App lines 713-721
FinalAssistantMessage(c) ==
    LET inputTokens == EstimateTokens(c.content)
        outputTokens == EstimateTokens(c.finalResponse)
    IN  [Placeholder(c) EXCEPT
            !.content = c.finalResponse,
            !.tokens_in = Some(inputTokens),
            !.tokens_out = Some(outputTokens),
            !.cost = Some(MessageCost(inputTokens, outputTokens, PrimaryPack(c))),
            !.grounding_chunks = c.groundingChunks]

\* App lines 705-729: the result replaces the placeholder and is handed to
\* dataService.addMessage
Finalize ==
    /\ pc = "finalize"
    /\ LET final == FinalAssistantMessage(call)
       IN  /\ totalCost' = totalCost + Get(final.cost)
           /\ allMessages' = [allMessages EXCEPT ![Get(call.sessionId)] =
                  ReplaceById(@, Placeholder(call).id, final)]
           /\ obs' = [obs EXCEPT !.published = Some(final)]
    /\ pc' = "persist"
    /\ UNCHANGED <<skillPacks, envVars, currentSessionId, sessionCount, isLoading,
                   abortController, abortedCtrls, ctrlCount, toasts, call, gen,
                   started, pendingAction, wire, dbCount>>

\* App lines 729-748: the saved row replaces the message
PersistOk ==
    /\ pc = "persist"
    /\ dbCount' = dbCount + 1
    /\ allMessages' = [allMessages EXCEPT ![Get(call.sessionId)] =
           ReplaceById(@, Placeholder(call).id,
                       SavedMessage(Get(obs.published), dbCount + 1))]
    /\ pc' = "updateSession"
    /\ UNCHANGED <<skillPacks, envVars, currentSessionId, sessionCount, isLoading,
                   abortController, abortedCtrls, ctrlCount, toasts, totalCost,
                   call, gen, obs, started, pendingAction, wire>>

PersistFail ==
    /\ pc = "persist"
    /\ Fail("Failed to add message", "persist", obs)
    /\ UNCHANGED <<skillPacks, envVars, currentSessionId, sessionCount,
                   abortedCtrls, ctrlCount, totalCost, call, gen, started, pendingAction, wire, dbCount>>

\* variant: the finally block leaves the controller in place
UpdateSessionOk_KeepsController ==
    /\ pc = "updateSession"
    /\ isLoading' = FALSE
    /\ pc' = "idle"
    /\ obs' = [obs EXCEPT !.outcome = "Done"]
    /\ UNCHANGED <<skillPacks, envVars, currentSessionId, sessionCount, allMessages,
                   abortController, abortedCtrls, ctrlCount, toasts, totalCost, call,
                   gen, started, pendingAction, wire, dbCount>>

\* App lines 748-749 and the finally block
UpdateSessionOk ==
    /\ pc = "updateSession"
    /\ isLoading' = FALSE
    /\ abortController' = None
    /\ pc' = "idle"
    /\ obs' = [obs EXCEPT !.outcome = "Done"]
    /\ UNCHANGED <<skillPacks, envVars, currentSessionId, sessionCount, allMessages,
                   abortedCtrls, ctrlCount, toasts, totalCost, call, gen, started, pendingAction, wire,
                   dbCount>>

UpdateSessionFail ==
    /\ pc = "updateSession"
    /\ Fail("Failed to update session", "updateSession", obs)
    /\ UNCHANGED <<skillPacks, envVars, currentSessionId, sessionCount,
                   abortedCtrls, ctrlCount, totalCost, call, gen, started, pendingAction, wire, dbCount>>

\* ------------------------------------------------------------- handleStop
\* the places where sendMessage waits for I/O, and the idle application
StopPoint ==
    \/ pc \in {"idle", "createSession", "saveUser", "saveRec", "install",
               "awaitResponse", "reading", "persist", "updateSession"}
    \/ pc = "route" /\ RouterReachable(call.closure.skillPacks, apiKeys)

\* AbortController.abort()
Abort(ctrl) == abortedCtrls \cup {ctrl}

\* App lines 781-785
Stop ==
    /\ StopPoint
    /\ IF IsSome(abortController)
       THEN /\ abortedCtrls' = Abort(Get(abortController))
            /\ obs' = IF Get(abortController) \in abortedCtrls THEN obs
                      ELSE [obs EXCEPT !.stoppedAt = Some(pc),
                                       !.deliveredAtStop = obs.delivered]
       ELSE /\ obs' = [obs EXCEPT !.idleStop = TRUE]
            /\ UNCHANGED abortedCtrls
    /\ UNCHANGED <<skillPacks, envVars, currentSessionId, sessionCount, allMessages,
                   isLoading, abortController, ctrlCount, toasts, totalCost, pc,
                   call, gen, started, pendingAction, wire, dbCount>>

\* ----------------------------------------------------------- handleRegenerate
\* Array.prototype.filter
RECURSIVE Filter(_, _)
Filter(s, keep) ==
    IF s = <<>> THEN <<>>
    ELSE (IF Head(s).id \in keep THEN <<Head(s)>> ELSE <<>>) \o Filter(Tail(s), keep)

\* the last message of a role, or undefined
LastOf(msgs, role) ==
    LET hits == {i \in 1..Len(msgs) : msgs[i].role = role}
    IN  IF hits = {} THEN None
        ELSE Some(msgs[CHOOSE i \in hits : \A j \in hits : j <= i])

\* App lines 768-779, from the button under the last assistant message
\* (Chat line 610): the update that drops the last assistant message is
\* queued, then sendMessage runs in the same render closure
Regenerate ==
    /\ pc = "idle"
    /\ ~started
    /\ ~isLoading
    /\ IsSome(currentSessionId)
    /\ LET sid == Get(currentSessionId)
           msgs == allMessages[sid]
           lastUserMessage == LastOf(msgs, "user")
           lastAssistant == LastOf(msgs, "assistant")
           kept == {msgs[i].id : i \in 1..Len(msgs)} \ {Get(lastAssistant).id}
       IN  /\ msgs /= <<>>
           /\ msgs[Len(msgs)].role = "assistant"
           /\ msgs[Len(msgs)].recommendation = None
           /\ IsSome(lastUserMessage)
           /\ obs' = [NoObs EXCEPT !.activationOrder = obs.activationOrder,
                                   !.regenerated = Some(Get(lastAssistant).id)]
           /\ EnterSendMessage(Get(lastUserMessage).content, FALSE, None, Closure,
                               [allMessages EXCEPT ![sid] = Filter(msgs, kept)])
    /\ started' = TRUE
    /\ gen' = NoGen
    /\ UNCHANGED <<skillPacks, envVars, currentSessionId, sessionCount,
                   abortedCtrls, toasts, totalCost, dbCount, pendingAction, wire>>

\* ------------------------------------------- the read loop over the bytes
\* a response body as characters; a JSON text delta is the three characters
\* "{", its text, "}", a delta with empty text is "{", "}"
DataPrefix == <<"d", "a", "t", "a", ":", " ">>
NewLine == "\n"

MaxWireLines == 2
MaxWireLen == MaxWireLines * 10
WireLines ==
    {DataPrefix \o <<"{", "a", "}">>, DataPrefix \o <<"{", "b", "}">>,
     DataPrefix \o <<"{", "}">>, DataPrefix \o <<"[DONE]">>, <<":">>}

RECURSIVE Joined(_)
\* the lines, each but the last followed by a newline
Joined(ls) ==
    IF Len(ls) = 1 THEN ls[1] ELSE ls[1] \o <<NewLine>> \o Joined(Tail(ls))

WireBodies ==
    UNION {{Joined(ls), Joined(ls) \o <<NewLine>>} :
               ls \in UNION {[1..n -> WireLines] : n \in 1..MaxWireLines}}

RECURSIVE Split(_)
\* String.prototype.split('\n'): the segments between the newlines
Split(text) ==
    LET hits == {i \in 1..Len(text) : text[i] = NewLine}
    IN  IF hits = {} THEN <<text>>
        ELSE LET i == CHOOSE i \in hits : \A j \in hits : i <= j
             IN  <<SubSeq(text, 1, i - 1)>> \o Split(SubSeq(text, i + 1, Len(text)))

\* line.startsWith('data: '), line.substring(6), the sentinel test and
\* JSON.parse with the delta's text
ParseLine(line) ==
    IF Len(line) < 6 \/ SubSeq(line, 1, 6) /= DataPrefix
    THEN [kind |-> "other", text |-> <<>>]
    ELSE LET jsonStr == SubSeq(line, 7, Len(line))
         IN  IF jsonStr = <<"[DONE]">> THEN [kind |-> "done", text |-> <<>>]
             ELSE IF jsonStr = <<"{", "}">> THEN [kind |-> "delta", text |-> <<>>]
             ELSE IF Len(jsonStr) = 3 /\ jsonStr[1] = "{" /\ jsonStr[3] = "}"
             THEN [kind |-> "delta", text |-> <<jsonStr[2]>>]
             ELSE [kind |-> "bad", text |-> <<>>]

RECURSIVE RunLines(_, _, _)
\* `for (const line of lines)`: the chunks yielded, and whether the
\* generator returned at the sentinel
RunLines(family, ls, out) ==
    IF ls = <<>> THEN [emitted |-> out, returned |-> FALSE]
    ELSE LET line == ParseLine(Head(ls))
             effect == LineEffect(family, line)
         IN  IF effect = "return" THEN [emitted |-> out, returned |-> TRUE]
             ELSE RunLines(family, Tail(ls),
                           IF effect = "yield" THEN Append(out, line.text) ELSE out)

\* one turn of `while (true)`: reader.read() delivers the next k characters
WireRead(k) ==
    /\ wire.ended = ""
    /\ k \in 1..Len(wire.rest)
    /\ LET text == wire.buffer \o SubSeq(wire.rest, 1, k)
           lines == Split(text)
           run == RunLines(wire.family, SubSeq(lines, 1, Len(lines) - 1), wire.emitted)
       IN  wire' = [wire EXCEPT !.rest = SubSeq(@, k + 1, Len(@)),
                                !.buffer = lines[Len(lines)],
                                !.emitted = run.emitted,
                                !.ended = IF run.returned THEN "sentinel" ELSE ""]
    /\ UNCHANGED <<skillPacks, envVars, currentSessionId, sessionCount, allMessages,
                   isLoading, abortController, abortedCtrls, ctrlCount, toasts,
                   totalCost, pc, call, gen, obs, started, pendingAction, dbCount>>

\* reader.read() reports done: the loop is left
WireDone ==
    /\ wire.ended = ""
    /\ wire.rest = <<>>
    /\ wire' = [wire EXCEPT !.ended = "natural"]
    /\ UNCHANGED <<skillPacks, envVars, currentSessionId, sessionCount, allMessages,
                   isLoading, abortController, abortedCtrls, ctrlCount, toasts,
                   totalCost, pc, call, gen, obs, started, pendingAction, dbCount>>

\* ------------------------------------- accepting a recommendation by hand
\* the recommendation message shown in the open session, if any
ShownRecommendation ==
    IF currentSessionId = None THEN None
    ELSE LET msgs == allMessages[Get(currentSessionId)]
         IN  Find(msgs, {i \in 1..Len(msgs) : IsSome(msgs[i].recommendation)})

\* the second sendMessage invocation's synchronous part (lines 537-589) while
\* another invocation is in flight; it is not followed past its first await
EnterSendMessageBeside(content, closure) ==
    LET sid == Get(closure.currentSessionId)
        userMessage == Message(<<"temp-user", ctrlCount + 1>>, "user", content)
    IN  /\ isLoading' = TRUE
        /\ ctrlCount' = ctrlCount + 1
        /\ abortController' = Some(ctrlCount + 1)
        /\ allMessages' = [allMessages EXCEPT ![sid] =
                               Append(closure.allMessages[sid], userMessage)]
        /\ UNCHANGED <<pc, call, gen>>

\* RecommendationBubble's button (disabled while isLoading) and
\* handleSkillAction with isAuto false, up to its await of installSkillPack
AcceptRecommendation ==
    /\ pc = "idle"
    /\ ~isLoading
    /\ pendingAction.state = "none"
    /\ IsSome(ShownRecommendation)
    /\ LET id == Get(Get(ShownRecommendation).recommendation)
           skill == Get(Find(skillPacks, {i \in 1..Len(skillPacks) : skillPacks[i].id = id}))
       IN  IF skill.isInstalled
           THEN /\ skillPacks' = Activate(skillPacks, id)
                /\ obs' = [NoObs EXCEPT !.activationOrder =
                                            Activated(obs.activationOrder, id, TRUE)]
                /\ gen' = NoGen
                /\ EnterSendMessage(call.content, TRUE, Some(skill), Closure, allMessages)
                /\ pendingAction' = [NoPending EXCEPT !.state = "sent"]
           ELSE /\ pendingAction' = [state |-> "installing", skill |-> Some(skill),
                                     prompt |-> call.content, closure |-> Closure]
                /\ UNCHANGED <<skillPacks, allMessages, isLoading, abortController,
                               ctrlCount, pc, call, gen, obs>>
    /\ UNCHANGED <<envVars, currentSessionId, sessionCount, abortedCtrls, toasts,
                   totalCost, started, dbCount, wire>>

\* Chat.handleSubmit while handleSkillAction waits for the install: isLoading
\* is false, so send is enabled; one such send is followed
SendWhileInstalling(content) ==
    /\ pc = "idle"
    /\ ~isLoading
    /\ pendingAction.state = "installing"
    /\ pendingAction' = [pendingAction EXCEPT !.state = "overtaken"]
    /\ obs' = [NoObs EXCEPT !.activationOrder = obs.activationOrder]
    /\ gen' = NoGen
    /\ EnterSendMessage(content, FALSE, None, Closure, allMessages)
    /\ UNCHANGED <<skillPacks, envVars, currentSessionId, sessionCount,
                   abortedCtrls, toasts, totalCost, started, dbCount, wire>>

\* handleSkillAction lines 531-534 after installSkillPack settles: the skill
\* is activated and sendMessage is called from the closure of the click
AcceptInstallDone(ok) ==
    /\ pendingAction.state \in {"installing", "overtaken"}
    /\ LET skill == Get(pendingAction.skill)
       IN  /\ skillPacks' = Activate(IF ok THEN Install(skillPacks, skill.id)
                                     ELSE skillPacks, skill.id)
           /\ toasts' = toasts \cup
                  {Toast(IF ok THEN "Skill Installed!" ELSE "Installation Failed")}
           /\ IF pc = "idle"
              THEN /\ obs' = [NoObs EXCEPT !.activationOrder =
                                  Activated(obs.activationOrder, skill.id, TRUE)]
                   /\ gen' = NoGen
                   /\ EnterSendMessage(pendingAction.prompt, TRUE, Some(skill),
                                       pendingAction.closure, allMessages)
                   /\ pendingAction' = [NoPending EXCEPT !.state = "sent"]
              ELSE /\ obs' = [obs EXCEPT !.activationOrder = Activated(@, skill.id, TRUE)]
                   /\ EnterSendMessageBeside(pendingAction.prompt, pendingAction.closure)
                   /\ pendingAction' = [NoPending EXCEPT !.state = "beside"]
    /\ UNCHANGED <<envVars, currentSessionId, sessionCount, abortedCtrls,
                   totalCost, started, dbCount, wire>>

\* ------------------------------------------------------------ specification
Next ==
    \/ \E id \in ToggledIds : Toggle(id)
    \/ \E content \in Inputs : Send(content)
    \/ Regenerate
    \/ CreateSessionOk
    \/ CreateSessionFail
    \/ SaveUserOk
    \/ SaveUserFail
    \/ RouterSkip
    \/ \E resp \in RouterResponses(call.closure.skillPacks) : RouterRespond(resp)
    \/ RouteFallThrough
    \/ ShowRecommendation
    \/ SaveRecOk
    \/ SaveRecFail
    \/ AutoPilotHandOff
    \/ \E ok \in BOOLEAN : InstallDone(ok)
    \/ Resolve
    \/ Dispatch
    \/ \E outcome \in ScriptOutcomes : Preprocess(outcome)
    \/ Request
    \/ ResponseOk
    \/ \E kind \in AllErrorKinds : ResponseFail(kind)
    \/ AbortObserved
    \/ StreamEnd
    \/ StreamError
    \/ \E c \in GoogleChunks : GoogleChunk(c)
    \/ \E n \in 0..MaxLinesPerRead : ReadLines(n)
    \/ \E kind \in LineKinds : ProcessLine(kind)
    \/ \E outcome \in ScriptOutcomes : Postprocess(outcome)
    \/ Finalize
    \/ PersistOk
    \/ PersistFail
    \/ UpdateSessionOk
    \/ UpdateSessionFail
    \/ Stop

Spec == Init /\ [][Next]_vars

\* the same program with the recommendation bubble's button in reach
NextWithAccept ==
    \/ Next
    \/ AcceptRecommendation
    \/ \E content \in Inputs : SendWhileInstalling(content)
    \/ \E ok \in BOOLEAN : AcceptInstallDone(ok)

SpecWithAccept == Init /\ [][NextWithAccept]_vars

\* the read loops of the two fetch adapters alone, over every body and every
\* way of cutting it into reads
InitFraming ==
    /\ InitCommon
    /\ skillPacks = <<>>
    /\ apiKeys = AllKeys
    /\ isAutoPilot = FALSE
    /\ currentSessionId = Some(1)
    /\ allMessages = NoMessages
    /\ obs = NoObs
    /\ \E family \in {"openai", "anthropic"}, body \in WireBodies :
           wire = [NoWire EXCEPT !.family = family, !.body = body, !.rest = body]

NextFraming ==
    \/ \E k \in 1..MaxWireLen : WireRead(k)
    \/ WireDone

SpecFraming == InitFraming /\ [][NextFraming]_vars

\* ================================================================== claims
HasPlaceholder == IsSome(call.assistantMessage)

\* the turn's assistant message: the last message of the turn's session
TurnMessage ==
    LET msgs == allMessages[Get(call.sessionId)] IN msgs[Len(msgs)]

IsError(content) == content /= <<>> /\ content[1] = "Error: "

CodeEnhanced == PrimaryPack(call).skill_type = "code-enhanced"

NaturalEnd == obs.genEnd \in {"natural", "sentinel"}

StoppedWhileStreaming ==
    /\ Cancelled
    /\ obs.stoppedAt \in {Some("awaitResponse"), Some("reading")}

progVars == <<skillPacks, apiKeys, customProviders, isAutoPilot, currentSessionId,
              sessionCount, allMessages, isLoading, abortController, abortedCtrls,
              ctrlCount, toasts, totalCost, pc, call, gen, started, pendingAction, wire, dbCount>>

\* C1: with a primary skill that is not code-enhanced, the placeholder's
\* visible content is at every moment the concatenation, in delivery order,
\* of the chunks the adapter has yielded so far, and the published final
\* message and the message of a turn that ended Done hold the concatenation
\* of all of them.
C1_StreamingAssembly ==
    (HasPlaceholder /\ ~CodeEnhanced /\ obs.outcome /= "Errored") =>
        /\ TurnMessage.content = Concat(obs.delivered)
        /\ call.fullResponse = Concat(obs.delivered)
        /\ IsSome(obs.published) =>
               Get(obs.published).content = Concat(obs.delivered)

C1_Witness ==
    /\ HasPlaceholder /\ ~CodeEnhanced
    /\ obs.outcome = "Done"
    /\ obs.genEnd = "natural"
    /\ Len(obs.delivered) >= 2
    /\ obs.delivered[1] /= obs.delivered[2]
    /\ TurnMessage.content = obs.delivered[1] \o obs.delivered[2]

\* C2: when the cancellation token is triggered while a turn with a
\* code-enhanced primary skill is streaming, the postprocessing script never
\* runs in that turn and the published text is the concatenation of the
\* chunks delivered before the cancellation.
C2_CancelSkipsPostprocessing ==
    (HasPlaceholder /\ CodeEnhanced /\ StoppedWhileStreaming) =>
        /\ obs.postRuns = 0
        /\ IsSome(obs.published) =>
               Get(obs.published).content = Concat(obs.deliveredAtStop)

\* C3: when the stream completed naturally and the postprocessing script
\* threw or returned a non-string, the turn goes on to publish its result:
\* the text is the unprocessed accumulated text, the Post-processing Error
\* notice is recorded, token and cost fields are computed, and nothing but a
\* failure to persist the published result can still turn the message into
\* an error.
C3_PostprocessingDegrades ==
    (HasPlaceholder /\ NaturalEnd /\ obs.postFailed) =>
        /\ "Post-processing Error" \in toasts
        /\ call.finalResponse = Concat(obs.delivered)
        /\ pc \in {"finalize", "persist", "updateSession", "idle"}
        /\ pc /= "finalize" => IsSome(obs.published)
        /\ IsSome(obs.published) =>
               /\ Get(obs.published).content = Concat(obs.delivered)
               /\ IsSome(Get(obs.published).tokens_in)
               /\ IsSome(Get(obs.published).tokens_out)
               /\ IsSome(Get(obs.published).cost)
        /\ obs.outcome = "Errored" => obs.errorAt \in {"persist", "updateSession"}
        /\ obs.errorAt = "" =>
               /\ ~IsError(TurnMessage.content)
               /\ "AI Response Error" \notin toasts
        /\ obs.outcome \in {"", "Done", "Errored"}

C3_Witness ==
    /\ HasPlaceholder /\ NaturalEnd /\ obs.postFailed
    /\ obs.outcome = "Done"
    /\ obs.delivered /= <<>>
    /\ TurnMessage.content = Concat(obs.delivered)

\* C4: when the preprocessing script of a code-enhanced primary skill throws
\* or returns a non-string, the turn ends Errored with the script error as
\* the assistant message, no request was sent to the provider and no chunk
\* was delivered.
C4_PreprocessingFatal ==
    obs.preFailed =>
        /\ obs.outcome = "Errored"
        /\ obs.errorAt = "preprocess"
        /\ obs.providerCalls = 0
        /\ obs.delivered = <<>>
        /\ \E outcome \in {"nonstring", "throw"} :
               TurnMessage.content =
                   ErrorContent(ScriptErrorMessage("Pre-processing", outcome))
        /\ pc = "idle"

C4_Witness ==
    /\ obs.preFailed
    /\ obs.outcome = "Errored"
    /\ gen.family = "anthropic"

\* C5: in every adapter family, once the cancellation token has been
\* triggered during streaming, no chunk is delivered to the subscriber.
C5_NoChunkAfterCancel ==
    (HasPlaceholder /\ StoppedWhileStreaming) => obs.lateChunks = 0

\* C6: a triggered cancellation token never surfaces as an error: the
\* adapter that holds the aborted signal does not fail while awaiting the
\* response or reading the stream, a turn whose generator ended on the abort
\* can be turned into an error only by a failure to persist its result, and
\* short of that its message is no 'Error: ...' and no AI Response Error
\* notice is raised.
C6_CancellationNotAnError ==
    /\ Aborted => obs.errorAt \notin {"awaitResponse", "reading"}
    /\ obs.genEnd = "aborted" =>
           /\ obs.errorAt \in {"", "persist", "updateSession"}
           /\ obs.errorAt = "" =>
                  /\ ~IsError(TurnMessage.content)
                  /\ "AI Response Error" \notin toasts

C6_Witness ==
    /\ obs.genEnd = "aborted"
    /\ obs.outcome = "Done"
    /\ obs.stoppedAt = Some("reading")
    /\ obs.delivered /= <<>>

\* C7: handleStop invoked when no turn was started, or after the turn ended
\* Done or Errored, changes no state of the program, and handleStop invoked
\* on a controller that is already aborted changes nothing either.
Quiescent == pc = "idle" /\ obs.outcome \in {"", "Done", "Errored"}

AlreadyAborted == IsSome(abortController) /\ Get(abortController) \in abortedCtrls

IsCeilQuarter(t, len) == t * TokenDivisor >= len /\ t * TokenDivisor < len + TokenDivisor

TokenTable ==
    /\ EstimateTokens(Rep("q", 0)) = 0
    /\ EstimateTokens(Rep("q", 1)) = 1
    /\ EstimateTokens(Rep("q", 4)) = 1
    /\ EstimateTokens(Rep("q", 4000)) = 1000

C8_CostDeterminism ==
    /\ TokenTable
    /\ IsSome(obs.published) =>
         LET m == Get(obs.published)
             K == PrimaryPack(call).cost_per_1k_tokens
             tin == Get(m.tokens_in)
             tout == Get(m.tokens_out)
         IN  /\ IsCeilQuarter(tin, Len(call.content))
             /\ IsCeilQuarter(tout, Len(m.content))
             /\ m.content = call.finalResponse
             /\ m.content = IF obs.postRuns > 0 /\ ~obs.postFailed
                            THEN Transformed(call.fullResponse)
                            ELSE call.fullResponse
             /\ Get(m.cost) = (tin + tout) * K
             /\ K = 0 => Get(m.cost) = 0
             /\ totalCost = Get(m.cost)

C8_Witness ==
    /\ obs.outcome = "Done"
    /\ IsSome(obs.published)
    /\ obs.postRuns > 0 /\ ~obs.postFailed
    /\ Len(call.content) = 5
    /\ Len(call.finalResponse) = 3
    /\ Get(obs.published).tokens_in = Some(2)
    /\ Get(obs.published).tokens_out = Some(1)
    /\ Get(obs.published).cost = Some(3 * 25)

\* C9: whenever the router fails (no routing key, a rejected call, an
\* unparsable answer, or an id that is not in the catalog) and the catalog is
\* not empty, recommendSkill returns the fixed general skill id when the
\* catalog holds it and the id of the first catalog entry otherwise.
HasGeneralSkill(skills) == \E i \in 1..Len(skills) : skills[i].id = GENERAL_SKILL_ID

C9_RecommendationFallback ==
    (pc = "routed" /\ obs.routerFailed /\ Len(call.closure.skillPacks) > 0) =>
        call.recommendedSkillId =
            IF HasGeneralSkill(call.closure.skillPacks)
            THEN Some(GENERAL_SKILL_ID)
            ELSE Some(call.closure.skillPacks[1].id)

\* C10: grounding metadata reaches the subscriber at most once in a turn, on
\* the first transport chunk whose grounding list is not empty, however many
\* later chunks carry one; the list kept for the final message is that first
\* list.
C10_GroundingOnce ==
    /\ Len(obs.groundingForwarded) <= 1
    /\ Len(obs.groundingForwarded) = (IF IsSome(obs.firstGrounding) THEN 1 ELSE 0)
    /\ IsSome(obs.firstGrounding) =>
           /\ obs.groundingForwarded = <<Get(obs.firstGrounding)>>
           /\ obs.groundingSeen >= 1
    /\ HasPlaceholder => call.groundingChunks = obs.firstGrounding
    /\ IsSome(obs.published) => Get(obs.published).grounding_chunks = obs.firstGrounding
    /\ (HasPlaceholder /\ obs.errorAt = "") =>
           TurnMessage.grounding_chunks = obs.firstGrounding

C10_Witness ==
    /\ obs.groundingSeen >= 2
    /\ obs.firstGrounding = Some(<<"g1">>)
    /\ obs.outcome = "Done"
    /\ TurnMessage.grounding_chunks = Some(<<"g1">>)
    /\ Len(obs.groundingForwarded) = 1

\* C11: the primary skill of a turn that runs on the active set is the skill
\* of that set that was activated earliest.
C11_PrimaryIsFirstActivated ==
    (call.skillsToUse /= <<>> /\ call.overrideSkill = None
        /\ obs.activationOrder /= <<>>) =>
        call.skillsToUse[1].id = obs.activationOrder[1]

\* C12: everything the turn generates is determined by the first element of
\* the skill list alone: the adapter family, the prompt sent, the scripts
\* run, the final text, the token counts and the cost; the other elements
\* show only in the skill_packs_used metadata of the reply.
FirstSkill == call.skillsToUse[1]

PastPreprocess ==
    pc \in {"request", "awaitResponse", "reading", "lines", "post", "finalize",
            "persist", "updateSession"} \/ obs.providerCalls > 0

C12_OnlyPrimaryGoverns ==
    HasPlaceholder =>
        /\ gen.family /= "" => gen.family = Family(FirstSkill.provider)
        /\ IsSome(gen.signal) => FirstSkill.provider \notin {"google", "google_search"}
        /\ PastPreprocess =>
               /\ gen.processedPrompt =
                      IF FirstSkill.skill_type = "code-enhanced"
                         /\ FirstSkill.preprocessing_code /= ""
                      THEN Transformed(call.content) ELSE call.content
               /\ obs.preRuns = IF FirstSkill.skill_type = "code-enhanced"
                                   /\ FirstSkill.preprocessing_code /= ""
                                THEN 1 ELSE 0
        /\ obs.postRuns > 0 => /\ FirstSkill.skill_type = "code-enhanced"
                               /\ FirstSkill.postprocessing_code /= ""
        /\ IsSome(obs.published) =>
             LET m == Get(obs.published)
                 runsPost == /\ FirstSkill.skill_type = "code-enhanced"
                             /\ FirstSkill.postprocessing_code /= ""
             IN  /\ obs.postRuns = IF runsPost THEN 1 ELSE 0
                 /\ m.content = IF runsPost /\ ~obs.postFailed
                                THEN Transformed(Concat(obs.delivered))
                                ELSE Concat(obs.delivered)
                 /\ m.tokens_in = Some(CeilDiv(Len(call.content), TokenDivisor))
                 /\ m.tokens_out = Some(CeilDiv(Len(m.content), TokenDivisor))
                 /\ Get(m.cost) = (Get(m.tokens_in) + Get(m.tokens_out))
                                      * FirstSkill.cost_per_1k_tokens
                 /\ m.skill_packs_used =
                        Some([i \in 1..Len(call.skillsToUse) |-> call.skillsToUse[i].id])

C12_Witness ==
    /\ obs.outcome = "Done"
    /\ Len(call.skillsToUse) = 2
    /\ FirstSkill.id = "skill-a"
    /\ call.skillsToUse[2].id = "skill-b"
    /\ gen.family = "openai"
    /\ obs.preRuns = 0 /\ obs.postRuns = 0
    /\ Len(obs.delivered) >= 2
    /\ Get(obs.published).content = Concat(obs.delivered)
    /\ Get(obs.published).cost = Some(3 * 25)

\* C13: every fatal error of a turn (missing general skill, missing or
\* rejected credentials, unknown custom provider, transport failure, HTTP
\* error, preprocessing script error) ends the turn with an assistant message
\* whose content is 'Error: ' followed by the error message.
FatalEnd ==
    /\ pc = "idle"
    /\ \/ obs.outcome = "ConfigError"
       \/ /\ obs.outcome = "Errored"
          /\ obs.errorAt \in {"dispatch", "preprocess", "awaitResponse", "reading"}

C13_ErrorPropagation ==
    FatalEnd =>
        LET msgs == allMessages[Get(call.sessionId)]
        IN  /\ msgs /= <<>>
            /\ msgs[Len(msgs)].role = "assistant"
            /\ IsError(msgs[Len(msgs)].content)

\* C14: a turn that runs without an override skill on an empty active set
\* (the router was skipped, gave no pick or gave the general id) generates
\* with the skill that has the fixed general id; when the catalog holds no
\* such skill the turn ends with the Configuration Error notice, no skill is
\* substituted and no provider call is made.
OnEmptyActiveSet ==
    /\ started
    /\ call.overrideSkill = None
    /\ ActiveIds(call.closure.skillPacks) = <<>>

C14_GeneralFallback ==
    /\ (OnEmptyActiveSet /\ HasPlaceholder) =>
           /\ Len(call.skillsToUse) = 1
           /\ call.skillsToUse[1].id = GENERAL_SKILL_ID
           /\ \E i \in 1..Len(call.closure.skillPacks) :
                  call.closure.skillPacks[i] = call.skillsToUse[1]
    /\ (OnEmptyActiveSet /\ ~HasGeneralSkill(call.closure.skillPacks)) =>
           /\ ~HasPlaceholder
           /\ call.skillsToUse = <<>>
           /\ obs.providerCalls = 0
           /\ gen = NoGen
           /\ pc \notin {"dispatch", "preprocess", "request", "awaitResponse",
                         "reading", "lines", "post", "finalize", "persist",
                         "updateSession"}
    /\ obs.outcome = "ConfigError" =>
           /\ OnEmptyActiveSet
           /\ ~HasGeneralSkill(call.closure.skillPacks)
           /\ "Configuration Error" \in toasts
           /\ pc = "idle"
    /\ (OnEmptyActiveSet /\ pc = "idle" /\ ~ActsOnRecommendation(call)
           /\ obs.outcome \notin {"", "Crashed", "SessionFailed"}
           /\ ~HasGeneralSkill(call.closure.skillPacks)) =>
           obs.outcome = "ConfigError"

C14_Witness ==
    /\ obs.outcome = "ConfigError"
    /\ Len(call.closure.skillPacks) = 2
    /\ call.recommendedSkillId = None
    /\ obs.providerCalls = 0
    /\ allMessages[Get(call.sessionId)][Len(allMessages[Get(call.sessionId)])].role = "user"

\* C15: recommendSkill is called in a sendMessage invocation exactly when the
\* active set is empty, no override skill was passed and skipRecommendation
\* is false; while the router is consulted no adapter has been invoked; and
\* when it picks a skill other than the general one with auto-pilot off, the
\* turn shows the recommendation message and generates nothing.
RouterDue ==
    /\ call.overrideSkill = None
    /\ ~call.skipRecommendation
    /\ ActiveIds(call.closure.skillPacks) = <<>>

NothingGenerated == obs.providerCalls = 0 /\ gen = NoGen /\ ~HasPlaceholder

C15_RouterBeforeGeneration ==
    /\ [](pc \in {"route", "routed", "saveRec"} => (RouterDue /\ NothingGenerated))
    /\ [](obs.outcome = "Recommended" =>
             /\ NothingGenerated
             /\ ~isAutoPilot
             /\ ActsOnRecommendation(call)
             /\ LET msgs == allMessages[Get(call.sessionId)]
                IN  msgs[Len(msgs)].recommendation = call.recommendedSkillId)
    /\ [][(pc = "saveUser" /\ pc' \notin {"saveUser", "idle"}) =>
              (pc' = "route" <=> RouterDue)]_vars
    /\ [][(pc = "routed" /\ pc' /= "routed" /\ ActsOnRecommendation(call)
              /\ ~isAutoPilot) =>
              (pc' = "saveRec" /\ UNCHANGED <<gen, obs>>)]_vars

C15_Witness ==
    /\ obs.outcome = "Recommended"
    /\ obs.routerCalls = 1
    /\ ~obs.routerFailed
    /\ call.recommendedSkillId = Some("skill-1")
    /\ obs.providerCalls = 0

\* C16: when the primary skill's provider is google, google_search, openai
\* or anthropic and its API key is absent, the turn fails with the provider's
\* 'API Key is missing.' error before the adapter is entered and before any
\* request to the provider, and that message differs from every message an
\* adapter produces when the provider answers, a rejected key included.
KeyMissing ==
    /\ HasPlaceholder
    /\ IsSome(RequiredKey(call.skillsToUse[1].provider))
    /\ Get(RequiredKey(call.skillsToUse[1].provider)) \notin apiKeys

KeyMessagesDistinct ==
    \A p \in {"google", "google_search", "openai", "anthropic"} :
        \A q \in Providers : \A kind \in AllErrorKinds :
            MissingKeyMessage(p) /=
                ProviderError(Skill("s", "c", q, "prompt", "", "", 0, TRUE, TRUE), kind)

C16_CredentialFailFast ==
    /\ KeyMessagesDistinct
    /\ KeyMissing =>
           /\ pc \in {"dispatch", "idle"}
           /\ obs.providerCalls = 0
           /\ gen = NoGen
           /\ obs.delivered = <<>>
           /\ pc = "idle" =>
                  /\ obs.outcome = "Errored"
                  /\ obs.errorAt = "dispatch"
                  /\ TurnMessage.content =
                         ErrorContent(MissingKeyMessage(call.skillsToUse[1].provider))
    /\ (obs.outcome = "Errored" /\ obs.errorAt \in {"awaitResponse", "reading"}) =>
           /\ ~KeyMissing
           /\ obs.providerCalls = 1
           /\ \A p \in Providers :
                  TurnMessage.content /= ErrorContent(MissingKeyMessage(p))

C16_Witness ==
    /\ KeyMissing
    /\ call.skillsToUse[1].provider = "anthropic"
    /\ obs.outcome = "Errored"
    /\ TurnMessage.content = ErrorContent("Anthropic API Key is missing.")
    /\ obs.providerCalls = 0

\* C17: in the OpenAI-compatible adapter the line 'data: [DONE]' ends the
\* stream: once it is processed the generator has returned normally, whatever
\* lines of the same read or later reads remain, nothing more is delivered
\* and the turn goes on to postprocessing and its result.
TextDeltas == [i \in 1..gen.deltas |-> ChunkText(i)]

C17_SentinelTerminates ==
    obs.genEnd = "sentinel" =>
        /\ gen.family = "openai"
        /\ pc \in {"post", "finalize", "persist", "updateSession", "idle"}
        /\ obs.errorAt \in {"", "persist", "updateSession"}
        /\ Concat(obs.delivered) = Concat(TextDeltas)
        /\ call.fullResponse = Concat(TextDeltas)
        /\ obs.lateChunks = 0
        /\ pc \notin {"post", "finalize"} => IsSome(obs.published)
        /\ (IsSome(obs.published) /\ obs.postRuns = 0) =>
               Get(obs.published).content = Concat(TextDeltas)

C17_Witness ==
    /\ obs.genEnd = "sentinel"
    /\ gen.lines >= 1
    /\ gen.deltas = 1
    /\ obs.outcome = "Done"
    /\ TurnMessage.content = ChunkText(1)

\* C18: in the OpenAI-compatible and Anthropic adapters a line that is not a
\* data line, is not JSON or is another event yields no chunk and neither ends
\* nor fails the stream, and the emitted chunk sequence equals the text deltas
\* of the well-formed lines in their original order: no text delta of a
\* well-formed line is left out, and the chunks with text are the deltas the
\* transport sent, in order.
RECURSIVE WithText(_)
WithText(chunks) ==
    IF chunks = <<>> THEN <<>>
    ELSE IF Head(chunks) = <<>> THEN WithText(Tail(chunks))
    ELSE <<Head(chunks)>> \o WithText(Tail(chunks))

C18_PerLineTolerance ==
    gen.family \in {"openai", "anthropic"} =>
        /\ ~obs.droppedDelta
        /\ WithText(obs.delivered) = TextDeltas
        /\ gen.family = "anthropic" => obs.genEnd /= "sentinel"
        /\ obs.errorAt /= "lines"

\* C18, amended: as above, except that the OpenAI-compatible adapter emits
\* no chunk for a text delta that is empty: its chunk sequence is the
\* non-empty text deltas of the well-formed lines in their order, and the
\* Anthropic adapter leaves no delta out; a skipped line does not end the
\* stream (only [DONE] and the end of the body do) and no error comes from
\* a line.
C18_PerLineToleranceNonEmpty ==
    gen.family \in {"openai", "anthropic"} =>
        /\ gen.family = "anthropic" => ~obs.droppedDelta
        /\ gen.family = "openai" => obs.delivered = TextDeltas
        /\ WithText(obs.delivered) = TextDeltas
        /\ gen.family = "anthropic" => obs.genEnd /= "sentinel"
        /\ obs.errorAt /= "lines"
        /\ (obs.skipped /\ obs.errorAt = "" /\ ~Aborted) =>
               \/ pc \in {"lines", "reading"}
               \/ obs.genEnd \in {"natural", "sentinel"}
        /\ (obs.skipped /\ IsSome(obs.published) /\ obs.postRuns = 0) =>
               Get(obs.published).content = Concat(TextDeltas)

C18_Witness ==
    /\ obs.skipped
    /\ obs.droppedDelta
    /\ gen.family = "openai"
    /\ obs.genEnd = "natural"
    /\ obs.delivered = <<ChunkText(1)>>
    /\ obs.outcome = "Done"
    /\ TurnMessage.content = ChunkText(1)

\* C19: after a non-2xx response of the OpenAI-compatible or Anthropic
\* endpoint the turn's error is the provider's structured message when the
\* body carries one and the HTTP status text otherwise, also when the body
\* is empty or not JSON, behind the provider's prefix, and no chunk was
\* delivered.
C19_HttpErrorMapping ==
    obs.httpFailure /= "" =>
        /\ obs.outcome = "Errored"
        /\ obs.errorAt = "awaitResponse"
        /\ obs.delivered = <<>>
        /\ TurnMessage.content =
               ErrorContent(ProviderPrefix(PrimaryPack(call)) \o
                   (IF obs.httpFailure = "http_message"
                    THEN StructuredMessage ELSE StatusText))

\* C20: the text of a turn is the same function of the text deltas its
\* transport delivered, whichever of the Google-style, OpenAI-compatible and
\* Anthropic-style adapters carried them: at every moment the accumulated
\* text is the concatenation of the deltas received so far, empty deltas and
\* chunks without text adding nothing, and the final message is that text,
\* passed through the skill's postprocessing script when it has one. Turns
\* with the same skill scripts and equivalent delta sequences therefore end
\* with identical text in the three families.
FinalText(pack, deltas, postFailed) ==
    IF /\ pack.skill_type = "code-enhanced"
       /\ pack.postprocessing_code /= ""
       /\ ~postFailed
    THEN Transformed(Concat(deltas))
    ELSE Concat(deltas)

C20_MultiProviderEquivalence ==
    (gen.family \in {"google", "openai", "anthropic"} /\ obs.errorAt = "") =>
        /\ call.fullResponse = Concat(TextDeltas)
        /\ (IsSome(obs.published) /\ NaturalEnd) =>
               Get(obs.published).content =
                   FinalText(PrimaryPack(call), TextDeltas, obs.postFailed)

C20_Witness ==
    /\ gen.family = "anthropic"
    /\ obs.delivered = <<ChunkText(1), <<>>, ChunkText(2)>>
    /\ obs.genEnd = "natural"
    /\ obs.outcome = "Done"
    /\ Get(obs.published).content = ChunkText(1) \o ChunkText(2)

\* C21: the recentHistory handed to the router holds at most 3 messages:
\* the messages that come right before the newest user message in the
\* conversation, in order (all of them when there are fewer than 3), and not
\* the newest user message itself.
Preceding(history) == SubSeq(history, 1, Len(history) - 1)

LastThree(msgs) ==
    SubSeq(msgs, IF Len(msgs) > 3 THEN Len(msgs) - 2 ELSE 1, Len(msgs))

C21_RecommendationContext ==
    pc \in {"route", "routed"} =>
        call.conversationContext =
            LastThree(Preceding(call.conversationHistoryForApi))

\* C22: a turn appends one assistant placeholder, after the history for the
\* provider was fixed: that history ends with the new user message and does
\* not hold the placeholder; from then on the session's list is the list of
\* that moment followed by the one placeholder, whose content and result
\* fields are the only thing that changes, and the other sessions' lists are
\* as they were.
C22_SingleWriterPlaceholder ==
    HasPlaceholder =>
        LET sid == Get(call.sessionId)
            msgs == allMessages[sid]
            before == obs.beforePlaceholder
            history == call.conversationHistoryForApi
        IN  /\ \A s \in SessionIds \ {sid} : allMessages[s] = before[s]
            /\ Len(msgs) = Len(before[sid]) + 1
            /\ SubSeq(msgs, 1, Len(msgs) - 1) = before[sid]
            /\ TurnMessage.role = "assistant"
            /\ TurnMessage.skill_packs_used = Placeholder(call).skill_packs_used
            /\ history /= <<>>
            /\ history[Len(history)].role = "user"
            /\ history[Len(history)].content = call.content
            /\ history[Len(history)].id = Get(call.userMessageId)
            /\ \A i \in 1..Len(history) : history[i].id /= Placeholder(call).id

C22_Witness ==
    /\ HasPlaceholder
    /\ Len(obs.beforePlaceholder[1]) = 3
    /\ obs.beforePlaceholder[1][2].role = "assistant"
    /\ Len(obs.delivered) = 2
    /\ obs.outcome = "Done"
    /\ TurnMessage.content = Concat(obs.delivered)
    /\ allMessages[1][2] = OldMessage(2)

\* C23: in both phases a script that returns a string has that string passed
\* on verbatim; a script that returns something else or throws gives an error
\* tagged with its phase and no value is taken from it; and when the skill is
\* not code-enhanced or has no code for the phase, nothing runs and the input
\* goes through unchanged.
PastPre ==
    /\ HasPlaceholder
    /\ pc \notin {"dispatch", "preprocess"}
    /\ obs.errorAt \notin {"dispatch", "preprocess"}

Tagged(msg, phase) ==
    \E outcome \in {"nonstring", "throw"} : msg = ScriptErrorMessage(phase, outcome)

C23_ScriptSandboxContract ==
    /\ obs.preRuns <= 1 /\ obs.postRuns <= 1
    /\ PastPre =>
           IF RunsPre(PrimaryPack(call))
           THEN /\ obs.preRuns = 1 /\ ~obs.preFailed
                /\ gen.processedPrompt = Transformed(call.content)
           ELSE /\ obs.preRuns = 0
                /\ gen.processedPrompt = call.content
    /\ obs.preFailed =>
           /\ RunsPre(PrimaryPack(call))
           /\ Tagged(obs.scriptError, "Pre-processing")
           /\ ~Tagged(obs.scriptError, "Post-processing")
           /\ TurnMessage.content = ErrorContent(obs.scriptError)
           /\ gen.processedPrompt = <<>>
    /\ (pc \in {"finalize", "persist", "updateSession"} \/ obs.outcome = "Done") =>
           IF RunsPost(PrimaryPack(call))
           THEN /\ obs.postRuns = 1
                /\ ~obs.postFailed => call.finalResponse = Transformed(call.fullResponse)
           ELSE /\ obs.postRuns = 0
                /\ call.finalResponse = call.fullResponse
    /\ obs.postFailed =>
           /\ RunsPost(PrimaryPack(call))
           /\ Tagged(obs.scriptError, "Post-processing")
           /\ ~Tagged(obs.scriptError, "Pre-processing")
           /\ call.finalResponse = call.fullResponse
           /\ IsSome(obs.published) =>
                  Get(obs.published).content = call.fullResponse

C23_Witness ==
    /\ obs.preRuns = 1 /\ ~obs.preFailed
    /\ gen.processedPrompt = Transformed(Rep("q", 5))
    /\ obs.postFailed
    /\ obs.scriptError = ScriptErrorMessage("Post-processing", "nonstring")
    /\ call.fullResponse = ChunkText(1) \o ChunkText(2)
    /\ obs.outcome = "Done"
    /\ TurnMessage.content = call.fullResponse

\* C24: the phases of a turn come in order. The preprocessing script runs at
\* most once and before the request; chunks are delivered only between the
\* request and postprocessing; the postprocessing script runs at most once
\* and only when the stream has ended; the result with its tokens and cost is
\* produced only after postprocessing; and a generation ends as cancelled
\* only while it is streaming (awaiting the response or reading it).
Streaming == pc \in {"awaitResponse", "reading", "lines"}

BeforeRequest == pc \in {"dispatch", "preprocess", "request"}

PhaseOrder ==
    /\ obs.preRuns <= 1 /\ obs.postRuns <= 1
    /\ (HasPlaceholder /\ BeforeRequest) =>
           /\ obs.providerCalls = 0 /\ obs.delivered = <<>>
           /\ obs.postRuns = 0 /\ obs.genEnd = "" /\ obs.published = None
           /\ pc = "request" => obs.preRuns = IF RunsPre(PrimaryPack(call)) THEN 1 ELSE 0
    /\ obs.providerCalls > 0 =>
           obs.preRuns = IF RunsPre(PrimaryPack(call)) THEN 1 ELSE 0
    /\ obs.delivered /= <<>> => obs.providerCalls = 1
    /\ Streaming =>
           /\ obs.postRuns = 0 /\ obs.genEnd = "" /\ obs.published = None
           /\ pc \in {"reading", "lines"} => obs.providerCalls = 1
    /\ obs.postRuns > 0 => obs.genEnd /= ""
    /\ IsSome(obs.published) =>
           /\ obs.genEnd /= ""
           /\ obs.postRuns = IF RunsPost(PrimaryPack(call)) THEN 1 ELSE 0
           /\ IsSome(Get(obs.published).tokens_out) /\ IsSome(Get(obs.published).cost)

DeliveryWhileStreaming ==
    obs'.delivered /= obs.delivered =>
        \/ obs'.delivered = <<>>
        \/ /\ pc \in {"reading", "lines"}
           /\ obs.providerCalls = 1 /\ obs.postRuns = 0

CancelledFromStreaming ==
    (obs'.genEnd = "aborted" /\ obs.genEnd /= "aborted") =>
        pc \in {"awaitResponse", "reading"}

ResultAfterPostprocessing ==
    (obs'.published /= obs.published /\ IsSome(obs'.published)) => pc = "finalize"

C24_PhaseOrdering ==
    /\ []PhaseOrder
    /\ [][DeliveryWhileStreaming]_vars
    /\ [][CancelledFromStreaming]_vars
    /\ [][ResultAfterPostprocessing]_vars

C24_Witness ==
    /\ obs.outcome = "Done"
    /\ obs.preRuns = 1 /\ obs.postRuns = 1 /\ ~obs.postFailed
    /\ obs.providerCalls = 1
    /\ Len(obs.delivered) = 2
    /\ obs.genEnd = "natural"
    /\ Get(obs.published).content = Transformed(Concat(obs.delivered))

C26_TurnTermination ==
    (pc = "idle" /\ obs.outcome /= "") => ~isLoading

\* the waits of a turn that come before the provider request is dispatched
EarlyWaits == {"saveUser", "route", "install"}

\* C27: a cancellation requested after the turn has started and before the
\* provider request is dispatched (while the user message is saved, the
\* router is consulted or a recommended skill is installed on the auto-pilot
\* path; a script runs to its end without a wait) is honored before the next
\* phase begins: no provider chunk is delivered for that turn.
C27_EarlyCancellation ==
    (IsSome(obs.stoppedAt) /\ Get(obs.stoppedAt) \in EarlyWaits) => obs.delivered = <<>>

\* the lines of a body, the last one included when it is not empty
BodyLines(body) ==
    LET segs == Split(body)
    IN  IF segs[Len(segs)] = <<>> THEN SubSeq(segs, 1, Len(segs) - 1) ELSE segs

\* C28: in the OpenAI-compatible and Anthropic adapters the chunks emitted for
\* a body are the same for every way of cutting it into reads, and they are
\* the deltas of all its data lines in order (up to the sentinel in the
\* OpenAI-compatible adapter), the last line included when the body ends
\* without a newline.
C28_FramingIndependence ==
    wire.ended /= "" => wire.emitted = RunLines(wire.family, BodyLines(wire.body), <<>>).emitted

\* C29: after handleRegenerate the session's message list no longer holds
\* the assistant message being regenerated, and the history sent to the
\* provider for the regenerated turn does not hold it either.
C29_RegenerateRemovesLast ==
    IsSome(obs.regenerated) =>
        LET Holds(msgs) == \E i \in 1..Len(msgs) : msgs[i].id = Get(obs.regenerated)
        IN  /\ ~Holds(allMessages[Get(call.sessionId)])
            /\ ~Holds(call.conversationHistoryForApi)

\* C30: for every catalog, credentials state and router response (an id
\* that is not in the catalog included), recommendSkill returns null or the
\* id of a skill of the catalog it was given; it returns null only when the
\* catalog is empty, or when the routing key is missing and the catalog has
\* no skill of category General.
C30_RouterResultValidity ==
    pc = "routed" =>
        LET skills == call.closure.skillPacks
            result == call.recommendedSkillId
        IN  /\ IsSome(result) => \E i \in 1..Len(skills) : skills[i].id = Get(result)
            /\ result = None =>
                   \/ skills = <<>>
                   \/ "google" \notin apiKeys /\ GeneralByCategory(skills) = None

\* the routing model's answer was no id of the catalog, and the catalog has
\* no General skill: the first skill of the catalog is returned
C30_Witness ==
    /\ pc = "routed"
    /\ obs.routerCalls = 1
    /\ obs.routerFailed
    /\ GeneralByCategory(call.closure.skillPacks) = None
    /\ call.recommendedSkillId = Some(call.closure.skillPacks[1].id)

====
